---- MODULE Spec2Model ----
(***************************************************************************)
(* A model of the bitcask-rs storage engine: the record framing, the data  *)
(* files with their tracked write offset, Engine::open with its recovery   *)
(* scan, put / get / delete, and the write batch.                          *)
(*                                                                         *)
(* A data file is modelled as the sequence of records appended to it; the  *)
(* byte offset of a record is the sum of the encoded lengths of the        *)
(* records before it, computed as LogRecord::encoded_length computes it.   *)
(* Every record carries one extra field, bid, which the code does not      *)
(* have: it names the commit that wrote the record (0 for put / delete)    *)
(* and is read only by the properties, never by the operations.            *)
(***************************************************************************)
EXTENDS Integers, Sequences, FiniteSets, TLC

\* ------------------------------------------------------------------ bounds

\* records appended in one run, over all files and restarts
MaxRecords == 4

\* records appended in a run with an iterator
MaxIterRecords == 3

\* the values of options.data_file_size, in bytes: SmallFile holds two
\* records of a put, LargeFile two one-record batches
SmallFile == 19
LargeFile == 56

\* user keys and values of the modelled calls
Keys == {<<1>>, <<2>>}
EmptyKey == <<>>
Values == {<<>>, <<8, 8>>}
\* the values staged in a write batch
BatchValues == {<<7>>}

\* ------------------------------------------------------- program constants

INITIAL_FILE_ID == 0
NON_TRANSACTION_SEQ_NUM == 0
\* b"txn-finish"
TXN_FINISH_KEY == <<116, 120, 110, 45, 102, 105, 110, 105, 115, 104>>

NORMAL == "NORMAL"
DELETE == "DELETE"
TXNFINISHED == "TXNFINISHED"

\* ------------------------------------------------------------- the codec

\* prost::encode_length_delimiter: base-128 varint, low group first
RECURSIVE encode_length_delimiter(_)
encode_length_delimiter(n) ==
    IF n < 128 THEN <<n>>
    ELSE <<(n % 128) + 128>> \o encode_length_delimiter(n \div 128)

\* prost::decode_length_delimiter: the value and the bytes consumed
RECURSIVE decode_length_delimiter(_)
decode_length_delimiter(buf) ==
    IF buf[1] < 128 THEN [value |-> buf[1], len |-> 1]
    ELSE LET r == decode_length_delimiter(Tail(buf))
         IN [value |-> (buf[1] - 128) + 128 * r.value, len |-> r.len + 1]

length_delimiter_len(n) ==
    IF n < 128 THEN 1
    ELSE IF n < 16384 THEN 2
    ELSE IF n < 2097152 THEN 3
    ELSE IF n < 268435456 THEN 4
    ELSE 5

log_record_key_with_seq_num(key, seq) == encode_length_delimiter(seq) \o key

parse_log_record_key(key) ==
    LET d == decode_length_delimiter(key)
    IN [key |-> SubSeq(key, d.len + 1, Len(key)), seq_num |-> d.value]

encoded_length(rec) ==
    1 + length_delimiter_len(Len(rec.key)) + length_delimiter_len(Len(rec.value))
      + Len(rec.key) + Len(rec.value) + 4

LogRecord(key, value, type, bid) ==
    [key |-> key, value |-> value, record_type |-> type, bid |-> bid]

\* ------------------------------------------------------------ data files

\* byte offset at which the i-th record of file f starts
RECURSIVE RecordStart(_, _)
RecordStart(f, i) ==
    IF i <= 1 THEN 0 ELSE RecordStart(f, i - 1) + encoded_length(f[i - 1])

\* A frame of which only the first `written` bytes reached the file before
\* the machine stopped; it can only be the last thing in its file.
TORN == "TORN"
IsTorn(rec) == rec.record_type = TORN

\* the length of the file in bytes
FileSize(f) ==
    IF f # <<>> /\ IsTorn(f[Len(f)])
    THEN RecordStart(f, Len(f)) + f[Len(f)].written
    ELSE RecordStart(f, Len(f) + 1)

IsRecordStart(f, offset) == \E i \in 1..Len(f) : RecordStart(f, i) = offset

RecordAt(f, offset) == f[CHOOSE i \in 1..Len(f) : RecordStart(f, i) = offset]

NoRecord == LogRecord(<<>>, <<>>, "NONE", 0)

\* ------------------------------------------------------- frames as bytes

\* LogRecordType as u8 and From<u8> for LogRecordType.  The enum of
\* log_record.rs declares NORMAL = 1 and DELETE = 2; TXNFINISHED, which
\* batch.rs and db.rs use, is taken to be the next discriminant.  Every
\* other byte reaches unreachable!().
TypeByte(t) == IF t = NORMAL THEN 1 ELSE IF t = DELETE THEN 2 ELSE 3
from_u8(b) ==
    IF b = 1 THEN NORMAL ELSE IF b = 2 THEN DELETE
    ELSE IF b = 3 THEN TXNFINISHED ELSE "unreachable"

\* 1 + 2 * length_delimiter_len(u32::MAX)
max_log_record_header_size == 11

\* crc32fast::Hasher: CRC-32 with the reflected polynomial EDB88320.  A
\* 32-bit word is the set of the positions of its 1 bits, bit 0 the lowest.
Word32 == 0..31
CrcPolynomial == {31, 30, 29, 27, 26, 24, 23, 21, 20, 19, 15, 9, 8, 5}

Xor(a, b) == (a \ b) \cup (b \ a)

ByteBits(b) == {i \in 0..7 : (b \div (2 ^ i)) % 2 = 1}

RECURSIVE BitsByte(_, _)
BitsByte(w, i) ==
    IF i > 7 THEN 0 ELSE (IF i \in w THEN 2 ^ i ELSE 0) + BitsByte(w, i + 1)

\* one bit of the input taken: the word shifts right and the polynomial is
\* added when the bit shifted out is 1
CrcShift(w) ==
    LET shifted == {i - 1 : i \in w \ {0}}
    IN IF 0 \in w THEN Xor(shifted, CrcPolynomial) ELSE shifted

CrcByte(w, b) ==
    CrcShift(CrcShift(CrcShift(CrcShift(CrcShift(CrcShift(CrcShift(CrcShift(
        Xor(w, ByteBits(b))))))))))

\* Hasher::update over the bytes lo..hi of buf, byte after byte; the range is
\* halved so that the depth of the evaluation stays small, and the word of
\* the first half is evaluated before the second half is taken
RECURSIVE CrcUpdate(_, _, _, _)
CrcUpdate(w, buf, lo, hi) ==
    IF lo > hi THEN w
    ELSE IF lo = hi THEN CrcByte(w, buf[lo])
    ELSE LET mid == (lo + hi) \div 2
             first_half == CrcUpdate(w, buf, lo, mid)
         IN IF first_half \subseteq Word32
            THEN CrcUpdate(first_half, buf, mid + 1, hi) ELSE {}

\* Hasher::new, update(buf), finalize
crc32(buf) == Word32 \ CrcUpdate(Word32, buf, 1, Len(buf))

\* a put_u32 that writes the low byte first
put_u32_le(w) ==
    <<BitsByte({i \in 0..7 : i \in w}, 0), BitsByte({i \in 0..7 : i + 8 \in w}, 0),
      BitsByte({i \in 0..7 : i + 16 \in w}, 0), BitsByte({i \in 0..7 : i + 24 \in w}, 0)>>

\* BufMut::put_u32: the four bytes of the word, the high byte first
put_u32(w) ==
    <<BitsByte({i \in 0..7 : i + 24 \in w}, 0), BitsByte({i \in 0..7 : i + 16 \in w}, 0),
      BitsByte({i \in 0..7 : i + 8 \in w}, 0), BitsByte({i \in 0..7 : i \in w}, 0)>>

\* Buf::get_u32 on four bytes
get_u32(b) ==
    {i + 24 : i \in ByteBits(b[1])} \cup {i + 16 : i \in ByteBits(b[2])}
        \cup {i + 8 : i \in ByteBits(b[3])} \cup ByteBits(b[4])

\* LogRecord::encode_and_get_crc: the buffer before the crc is written
EncodedBody(rec) ==
    <<TypeByte(rec.record_type)>> \o encode_length_delimiter(Len(rec.key))
        \o encode_length_delimiter(Len(rec.value)) \o rec.key \o rec.value

\* LogRecord::get_crc
get_crc(rec) == crc32(EncodedBody(rec))

\* LogRecord::encode
encode(rec) == EncodedBody(rec) \o put_u32(get_crc(rec))

\* IOManager::read into a zeroed buffer of n bytes: the bytes the file has
\* from offset on, the rest of the buffer stays zero
ReadAt(bytes, offset, n) ==
    [i \in 1..n |-> IF offset + i <= Len(bytes) THEN bytes[offset + i] ELSE 0]

\* decode_length_delimiter(&mut header_buf): the length and the number of
\* bytes taken; an error when the bytes that are left hold no last byte of a
\* varint.  Lengths of more than four varint bytes do not occur with the
\* frames of these runs and are given as an error of their own.
DecodeHeaderVarint(buf) ==
    IF \A i \in 1..Len(buf) : buf[i] >= 128
    THEN [err |-> "DecodeError", value |-> 0, len |-> 0]
    ELSE LET d == decode_length_delimiter(
                      SubSeq(buf, 1, CHOOSE i \in 1..Len(buf) :
                                        /\ buf[i] < 128
                                        /\ \A j \in 1..(i - 1) : buf[j] >= 128))
         IN IF d.len > 4 THEN [err |-> "LengthOutOfRange", value |-> 0, len |-> d.len]
            ELSE [err |-> "Ok", value |-> d.value, len |-> d.len]

ReadResult(err, record, size) == [err |-> err, record |-> record, size |-> size]

\* DataFile::read_log_record on the bytes of a file
ReadLogRecord(bytes, offset) ==
    LET header_buf == ReadAt(bytes, offset, max_log_record_header_size)
        record_type == header_buf[1]
        k == DecodeHeaderVarint(Tail(header_buf))
        v == DecodeHeaderVarint(SubSeq(header_buf, 2 + k.len, Len(header_buf)))
        key_len == k.value
        value_len == v.value
        actual_header_size ==
            length_delimiter_len(key_len) + length_delimiter_len(value_len) + 1
        kv_buf == ReadAt(bytes, offset + actual_header_size, key_len + value_len + 4)
        log_record == LogRecord(SubSeq(kv_buf, 1, key_len),
                                SubSeq(kv_buf, key_len + 1, key_len + value_len),
                                from_u8(record_type), 0)
        crc == get_u32(SubSeq(kv_buf, key_len + value_len + 1, key_len + value_len + 4))
    IN IF k.err # "Ok" THEN ReadResult("Panic", NoRecord, 0)
       ELSE IF v.err # "Ok" THEN ReadResult("Panic", NoRecord, 0)
       ELSE IF key_len = 0 /\ value_len = 0 THEN ReadResult("ReadDataFileEOF", NoRecord, 0)
       ELSE IF log_record.record_type = "unreachable" THEN ReadResult("Panic", NoRecord, 0)
       ELSE IF crc # get_crc(log_record)
       THEN ReadResult("InvalidLogRecordCRC", NoRecord, 0)
       ELSE ReadResult("Ok", log_record, actual_header_size + key_len + value_len + 4)

\* ------------------------------------------- data files as record lists

\* DataFile::read_log_record at the first byte of a frame of which the file
\* has only the first `written` bytes: the positioned reads return the bytes
\* the file has and leave the rest of their buffers zero
TornRead(rec, written) ==
    LET r == ReadLogRecord(SubSeq(encode(rec), 1, written), 0)
    IN IF r.err = "Ok"
       THEN [err |-> "Ok", record |-> rec, size |-> r.size]
       ELSE [err |-> r.err, record |-> NoRecord, size |-> 0]

\* the torn frame as an entry of its file: what was being written, how much
\* of it the file has, and what a read at its first byte returns
TornRecord(rec, written) ==
    [key |-> rec.key, value |-> rec.value, record_type |-> TORN, bid |-> rec.bid,
     written |-> written, read |-> TornRead(rec, written)]

\* DataFile::read_log_record.  At the first byte of a frame it returns the
\* record and its size.  At or past the end of the file the positioned read
\* returns no bytes, the zeroed header decodes to key_len = value_len = 0
\* and the result is ReadDataFileEOF.  At any other position the bytes are
\* not a frame: the result is an error or an abort, called NotAFrame here.
read_log_record(f, offset) ==
    IF IsRecordStart(f, offset)
    THEN IF IsTorn(RecordAt(f, offset))
         THEN RecordAt(f, offset).read
         ELSE [err |-> "Ok", record |-> RecordAt(f, offset),
               size |-> encoded_length(RecordAt(f, offset))]
    ELSE IF offset >= FileSize(f)
    THEN [err |-> "ReadDataFileEOF", record |-> NoRecord, size |-> 0]
    ELSE [err |-> "NotAFrame", record |-> NoRecord, size |-> 0]

LogRecordPos(file_id, offset) == [file_id |-> file_id, offset |-> offset]

\* ------------------------------------------------------------- the index

\* BTree::put / BTree::delete on a map from user key to LogRecordPos
IndexPut(idx, key, pos) ==
    [k \in DOMAIN idx \cup {key} |-> IF k = key THEN pos ELSE idx[k]]

IndexDelete(idx, key) == [k \in DOMAIN idx \ {key} |-> idx[k]]

EmptyMap == [k \in {} |-> 0]

MapPut(m, k, v) == [x \in DOMAIN m \cup {k} |-> IF x = k THEN v ELSE m[x]]

MapRemove(m, k) == [x \in DOMAIN m \ {k} |-> m[x]]

\* ------------------------------------------------------------- the state

VARIABLES
    disk,            \* the directory: file id -> the records the file holds
    synced,          \* file id -> number of its records that survive a crash
    opened,          \* an Engine value exists
    options,         \* Options.sync_write and the batch's WriteOptions
    active_file,     \* Engine.active_file: its file id and tracked write_offset
    older_files,     \* the keys of Engine.older_files
    file_ids,        \* Engine.file_ids
    index,           \* Engine.index: user key -> LogRecordPos
    seq_num,         \* Engine.seq_num
    pending_writes,  \* WriteBatch.pending_writes: user key -> staged record
    open_err,        \* the result of the last Engine::open ("Ok" when it succeeded)
    hist,            \* what the properties remember of the run (not program state)
    threads,         \* thread -> the call it is in and the locals of that call
    iterator,        \* the BTreeIterator of the user iterator, if one was created
    returned,        \* the last call whose result a run has recorded, and the result
    codec            \* a DataFile used by itself: the records written to it, its
                     \* bytes, the bit that was flipped and the last read

vars == <<disk, synced, opened, options, active_file, older_files, file_ids,
          index, seq_num, pending_writes, open_err, hist, threads, iterator,
          returned, codec>>

Res(err, value) == [err |-> err, value |-> value]
Ok(value) == Res("Ok", value)
Err(err) == Res(err, <<>>)

\* the files part of the engine, as one value the operations transform
Files == [disk |-> disk, synced |-> synced, active_file |-> active_file,
          older_files |-> older_files]

\* DataFile::sync on file id: all its bytes are durable
SyncFile(e, id) == [e EXCEPT !.synced = MapPut(@, id, Len(e.disk[id]))]

\* a rollover that does not sync the file it leaves
RollActiveFileUnsynced(e) ==
    LET current_file_id == e.active_file.file_id
        exists == current_file_id + 1 \in DOMAIN e.disk
    IN [disk |-> IF exists THEN e.disk ELSE MapPut(e.disk, current_file_id + 1, <<>>),
        synced |-> IF exists THEN e.synced ELSE MapPut(e.synced, current_file_id + 1, 0),
        active_file |-> [file_id |-> current_file_id + 1, write_offset |-> 0],
        older_files |-> e.older_files \cup {current_file_id}]

\* the rollover branch of Engine::append_log_record
RollActiveFile(e) ==
    LET current_file_id == e.active_file.file_id
        exists == current_file_id + 1 \in DOMAIN e.disk
        s == SyncFile(e, current_file_id)
    IN [disk |-> IF exists THEN s.disk ELSE MapPut(s.disk, current_file_id + 1, <<>>),
        synced |-> IF exists THEN s.synced ELSE MapPut(s.synced, current_file_id + 1, 0),
        active_file |-> [file_id |-> current_file_id + 1, write_offset |-> 0],
        older_files |-> s.older_files \cup {current_file_id}]

\* an append that rolls the active file as soon as the record fills it
NeedsRollAtLimit(e, encoded_len) ==
    e.active_file.write_offset + encoded_len >= options.data_file_size

\* the condition under which an append rolls the active file
NeedsRoll(e, encoded_len) ==
    e.active_file.write_offset + encoded_len > options.data_file_size

\* an append through a file opened with truncate instead of append: the
\* record replaces what the file held
append_log_record_truncating(e, record, sync_write) ==
    LET encoded_len == encoded_length(record)
        r == IF NeedsRoll(e, encoded_len) THEN RollActiveFile(e) ELSE e
        id == r.active_file.file_id
        write_offset == r.active_file.write_offset
        w == [r EXCEPT !.disk = MapPut(@, id, <<record>>),
                       !.active_file.write_offset = @ + encoded_len]
    IN [e |-> IF sync_write THEN SyncFile(w, id) ELSE w,
        pos |-> LogRecordPos(id, write_offset)]

\* Engine::append_log_record: the files after the append and the returned
\* position.  The file is opened in append mode, so the bytes go to the end
\* of the file whatever the tracked write_offset is.
append_log_record(e, record, sync_write) ==
    LET encoded_len == encoded_length(record)
        r == IF NeedsRoll(e, encoded_len) THEN RollActiveFile(e) ELSE e
        id == r.active_file.file_id
        write_offset == r.active_file.write_offset
        w == [r EXCEPT !.disk = MapPut(@, id, Append(r.disk[id], record)),
                       !.active_file.write_offset = @ + encoded_len]
    IN [e |-> IF sync_write THEN SyncFile(w, id) ELSE w,
        pos |-> LogRecordPos(id, write_offset)]

\* Engine::get_value_by_position
get_value_by_position(e, pos) ==
    IF e.active_file.file_id # pos.file_id /\ pos.file_id \notin e.older_files
    THEN Err("DataFileNotFound")
    ELSE LET r == read_log_record(e.disk[pos.file_id], pos.offset)
         IN IF r.err # "Ok" THEN Err(r.err)
            ELSE IF r.record.record_type = NORMAL THEN Ok(r.record.value)
            ELSE IF r.record.record_type = DELETE THEN Err("KeyNotFound")
            ELSE Err("Panic")

\* Engine::get
EngineGet(e, idx, key) ==
    IF key = EmptyKey THEN Err("KeyIsEmpty")
    ELSE IF key \in DOMAIN idx THEN get_value_by_position(e, idx[key])
    ELSE Err("KeyNotFound")

\* ---------------------------------------------------------------- recovery

\* Engine::update_index
update_index(idx, key, record_type, pos) ==
    IF record_type = NORMAL THEN IndexPut(idx, key, pos)
    ELSE IF record_type = DELETE THEN IndexDelete(idx, key)
    ELSE idx

\* the closure of the TXNFINISHED branch: update_index for each buffered
\* record of the transaction, in the order they were buffered
RECURSIVE ApplyTransaction(_, _, _)
ApplyTransaction(idx, records, i) ==
    IF i > Len(records) THEN idx
    ELSE ApplyTransaction(
             update_index(idx, records[i].record.key, records[i].record.record_type,
                          records[i].pos),
             records, i + 1)

\* the body of the scan loop of load_index_from_data_files for one record.
\* acc: index, transaction_batch_records (txn), current_seq_num (seq), and
\* panic, set when the unwrap of the TXNFINISHED branch finds no bucket.
ScanRecord(acc, log_record, pos) ==
    LET p == parse_log_record_key(log_record.key)
        seq == p.seq_num
        a == IF seq = NON_TRANSACTION_SEQ_NUM
             THEN [acc EXCEPT !.index = update_index(@, p.key, log_record.record_type, pos)]
             ELSE IF log_record.record_type = TXNFINISHED
             THEN IF seq \notin DOMAIN acc.txn
                  THEN [acc EXCEPT !.panic = TRUE]
                  ELSE [acc EXCEPT !.index = ApplyTransaction(@, acc.txn[seq], 1),
                                   !.txn = MapRemove(@, seq)]
             ELSE [acc EXCEPT !.txn =
                      MapPut(@, seq,
                             Append(IF seq \in DOMAIN @ THEN @[seq] ELSE <<>>,
                                    [record |-> [log_record EXCEPT !.key = p.key],
                                     pos |-> pos]))]
    IN [a EXCEPT !.seq = IF seq > @ THEN seq ELSE @]

\* the inner loop of load_index_from_data_files over one file, from offset;
\* it leaves in acc.offset the offset at which the file's scan ended
RECURSIVE ScanFile(_, _, _, _)
ScanFile(f, file_id, offset, acc) ==
    LET r == read_log_record(f, offset)
    IN IF acc.panic \/ acc.err # "Ok" THEN acc
       ELSE IF r.err = "ReadDataFileEOF" THEN [acc EXCEPT !.offset = offset]
       ELSE IF r.err # "Ok" THEN [acc EXCEPT !.err = r.err]
       ELSE ScanFile(f, file_id, offset + r.size,
                     ScanRecord(acc, r.record, LogRecordPos(file_id, offset)))

\* the outer loop: the files in the order of Engine.file_ids.  The offset
\* left by the file scanned last is the one set_write_offset receives.
RECURSIVE ScanFiles(_, _, _, _)
ScanFiles(dsk, ids, i, acc) ==
    IF i > Len(ids) \/ acc.panic \/ acc.err # "Ok" THEN acc
    ELSE ScanFiles(dsk, ids, i + 1, ScanFile(dsk[ids[i]], ids[i], 0, acc))

\* Engine::load_index_from_data_files
load_index_from_data_files(dsk, ids) ==
    ScanFiles(dsk, ids, 1,
              [index |-> EmptyMap, txn |-> EmptyMap, seq |-> NON_TRANSACTION_SEQ_NUM,
               offset |-> 0, panic |-> FALSE, err |-> "Ok"])

\* load_data_files: the ids of the directory's data files, ascending
load_data_files(dsk) ==
    CHOOSE s \in [1..Cardinality(DOMAIN dsk) -> DOMAIN dsk] :
        \A i, j \in DOMAIN s : i < j => s[i] < s[j]

Reverse(s) == [i \in 1..Len(s) |-> s[Len(s) + 1 - i]]

\* an open that keeps the file ids in the order load_data_files returns them
OpenFileIdsAscending(dsk) == load_data_files(dsk)

\* Engine::open, lines 52-56: the file ids are collected from the list of
\* data files after the list has been reversed
OpenFileIds(dsk) == Reverse(load_data_files(dsk))

\* an open that starts the counter after the greatest seq_num of the log
OpenSeqNumNext(loaded_seq) == loaded_seq + 1

\* Engine::open, lines 80-86: the counter the opened engine starts with
OpenSeqNum(loaded_seq) == IF loaded_seq > 0 THEN loaded_seq ELSE 1

\* ------------------------------------------------------------ write batch

StagedRecord(key, value, type) == [key |-> key, value |-> value, record_type |-> type]

\* the orders in which a HashMap of these keys can be iterated
Orders(S) == {s \in [1..Cardinality(S) -> S] : \A i, j \in DOMAIN s : i # j => s[i] # s[j]}

\* WriteBatch::commit, lines 81-90: the first n staged records, in the
\* iteration order, are appended under seq; positions maps each key to the
\* position its record was appended at
RECURSIVE AppendStaged(_, _, _, _, _, _, _)
AppendStaged(e, staged, order, n, seq, bid, sync_write) ==
    IF n = 0 THEN [e |-> e, positions |-> EmptyMap]
    ELSE LET before == AppendStaged(e, staged, order, n - 1, seq, bid, sync_write)
             rec == staged[order[n]]
             a == append_log_record(
                      before.e,
                      LogRecord(log_record_key_with_seq_num(rec.key, seq), rec.value,
                                rec.record_type, bid),
                      sync_write)
         IN [e |-> a.e, positions |-> MapPut(before.positions, rec.key, a.pos)]

\* WriteBatch::commit, lines 92-97: the record that finishes the transaction
FinishRecord(seq, bid) ==
    LogRecord(log_record_key_with_seq_num(TXN_FINISH_KEY, seq), <<>>, TXNFINISHED, bid)

\* WriteBatch::commit, lines 103-114: the staged records applied to the index
ApplyStaged(idx, staged, positions) ==
    [k \in (DOMAIN idx \ {x \in DOMAIN staged : staged[x].record_type = DELETE})
           \cup {x \in DOMAIN staged : staged[x].record_type = NORMAL}
       |-> IF k \in DOMAIN staged /\ staged[k].record_type = NORMAL
           THEN positions[k] ELSE idx[k]]

\* a commit that takes two numbers
FetchAddTwice(n) == n + 2

\* a commit that takes a number and leaves the counter as it is
FetchAddNone(n) == n

\* fetch_add(1) on Engine.seq_num: the counter after a commit took a number
FetchAdd(n) == n + 1

\* what get returns for a key once a staged record has taken effect
StagedResult(rec) == IF rec.record_type = NORMAL THEN Ok(rec.value) ELSE Err("KeyNotFound")

\* ------------------------------------------------------------------ Init

\* the option values of the modelled runs
OptionChoices ==
    {[data_file_size |-> SmallFile, sync_write |-> TRUE,
      wb_sync_writes |-> FALSE, max_batch_size |-> 2],
     [data_file_size |-> LargeFile, sync_write |-> FALSE,
      wb_sync_writes |-> TRUE, max_batch_size |-> 1]}

\* the threads that call the engine at the same time
Threads == {1, 2}

\* a thread that is inside no call
Idle == [pc |-> "idle", key |-> <<>>, pos |-> LogRecordPos(0, 0),
         pending_writes |-> EmptyMap, order |-> <<>>, n |-> 0, seq_num |-> 0,
         positions |-> EmptyMap, bid |-> 0]

\* no iterator has been created
NoIterator == [created |-> FALSE, items |-> <<>>, curr_index |-> 0,
               options |-> [prefix |-> <<>>, reverse |-> FALSE],
               snapshot |-> EmptyMap, sought |-> [kind |-> "start", key |-> <<>>],
               seen |-> <<>>, done |-> FALSE]

\* no DataFile is used by itself
NoDataFile == [records |-> <<>>, bytes |-> <<>>, flipped |-> 0, read |-> 0,
               result |-> [err |-> "None", record |-> NoRecord, size |-> 0]]

\* no call has been recorded
NoCall == [op |-> "none", key |-> <<>>, res |-> [err |-> "Ok", value |-> <<>>]]

\* the state after Engine::open on a directory that holds no data file
Init ==
    /\ options \in OptionChoices
    /\ disk = MapPut(EmptyMap, INITIAL_FILE_ID, <<>>)
    /\ synced = MapPut(EmptyMap, INITIAL_FILE_ID, 0)
    /\ opened = TRUE
    /\ active_file = [file_id |-> INITIAL_FILE_ID, write_offset |-> 0]
    /\ older_files = {}
    /\ file_ids = <<>>
    /\ index = EmptyMap
    /\ seq_num = 1
    /\ pending_writes = EmptyMap
    /\ open_err = "Ok"
    /\ hist = [last |-> [k \in Keys |-> Err("KeyNotFound")],
               maybe |-> [k \in Keys |-> {}],
               touched |-> {},
               appended |-> 0]
    /\ threads = [t \in Threads |-> Idle]
    /\ iterator = NoIterator
    /\ returned = NoCall
    /\ codec = NoDataFile

SetFiles(e) ==
    /\ disk' = e.disk
    /\ synced' = e.synced
    /\ active_file' = e.active_file
    /\ older_files' = e.older_files

\* a completed write of key whose effect on get is res
Wrote(h, key, res) ==
    [h EXCEPT !.last[key] = res, !.maybe[key] = {}, !.touched = @ \cup {key}]

\* ------------------------------------------------------------ the engine

\* a put that takes every key
PutResultAnyKey(key) == Ok(<<>>)

\* what Engine::put returns when the append succeeds
PutResult(key) == IF key = EmptyKey THEN Err("KeyIsEmpty") ELSE Ok(<<>>)

\* Engine::put
PutEffect(key, value) ==
    /\ opened
    /\ IF PutResult(key) # Ok(<<>>)
       THEN UNCHANGED <<disk, synced, active_file, older_files, index, hist>>
       ELSE /\ hist.appended < MaxRecords
            /\ LET record == LogRecord(
                       log_record_key_with_seq_num(key, NON_TRANSACTION_SEQ_NUM),
                       value, NORMAL, 0)
                   a == append_log_record(Files, record, options.sync_write)
               IN /\ SetFiles(a.e)
                  /\ index' = IndexPut(index, key, a.pos)
                  /\ hist' = [Wrote(hist, key, Ok(value)) EXCEPT !.appended = @ + 1]
    /\ UNCHANGED <<opened, options, file_ids, seq_num, pending_writes, open_err>>
    /\ UNCHANGED <<threads, iterator, codec>>

\* Engine::put in the runs that record no result
Put(key, value) == PutEffect(key, value) /\ UNCHANGED returned

\* Engine::get: it returns EngineGet(Files, index, key) and changes nothing
Get(key) ==
    /\ opened
    /\ UNCHANGED vars

\* a delete that reports a key the index does not hold
DeleteResultMissing(idx, key) ==
    IF key = EmptyKey THEN Err("KeyIsEmpty")
    ELSE IF key \notin DOMAIN idx THEN Err("KeyNotFound")
    ELSE Ok(<<>>)

\* what Engine::delete returns when the append succeeds
DeleteResult(idx, key) == IF key = EmptyKey THEN Err("KeyIsEmpty") ELSE Ok(<<>>)

\* Engine::delete
DeleteEffect(key) ==
    /\ opened
    /\ IF DeleteResult(index, key) # Ok(<<>>)
       THEN UNCHANGED <<disk, synced, active_file, older_files, index, hist>>
       ELSE IF key \notin DOMAIN index
       THEN /\ hist' = Wrote(hist, key, Err("KeyNotFound"))
            /\ UNCHANGED <<disk, synced, active_file, older_files, index>>
       ELSE /\ hist.appended < MaxRecords
            /\ LET log_record == LogRecord(
                       log_record_key_with_seq_num(key, NON_TRANSACTION_SEQ_NUM),
                       <<>>, DELETE, 0)
                   a == append_log_record(Files, log_record, options.sync_write)
               IN /\ SetFiles(a.e)
                  /\ index' = IndexDelete(index, key)
                  /\ hist' = [Wrote(hist, key, Err("KeyNotFound")) EXCEPT !.appended = @ + 1]
    /\ UNCHANGED <<opened, options, file_ids, seq_num, pending_writes, open_err>>
    /\ UNCHANGED <<threads, iterator, codec>>

\* Engine::delete in the runs that record no result
Delete(key) == DeleteEffect(key) /\ UNCHANGED returned

\* Engine::sync and Engine::close: both sync the active file
Sync ==
    /\ opened
    /\ SetFiles(SyncFile(Files, active_file.file_id))
    /\ UNCHANGED <<opened, options, file_ids, index, seq_num, pending_writes,
                   open_err, hist>>
    /\ UNCHANGED <<threads, iterator, returned, codec>>

\* WriteBatch::put
BatchPutEffect(key, value) ==
    /\ opened
    /\ pending_writes' =
          IF key = EmptyKey THEN pending_writes
          ELSE MapPut(pending_writes, key, StagedRecord(key, value, NORMAL))
    /\ UNCHANGED <<disk, synced, opened, options, active_file, older_files, file_ids,
                   index, seq_num, open_err, hist>>
    /\ UNCHANGED <<threads, iterator, codec>>

\* WriteBatch::put in the runs that record no result
BatchPut(key, value) == BatchPutEffect(key, value) /\ UNCHANGED returned

\* a batch delete that stages a DELETE record whatever the index holds
StagedAfterDeleteAlways(staged, idx, key) ==
    IF key = EmptyKey THEN staged
    ELSE MapPut(staged, key, StagedRecord(key, <<>>, DELETE))

\* WriteBatch::delete, lines 42-61: the staged map it leaves
StagedAfterDelete(staged, idx, key) ==
    IF key = EmptyKey THEN staged
    ELSE IF key \notin DOMAIN idx THEN MapRemove(staged, key)
    ELSE MapPut(staged, key, StagedRecord(key, <<>>, DELETE))

\* WriteBatch::delete
BatchDeleteEffect(key) ==
    /\ opened
    /\ pending_writes' = StagedAfterDelete(pending_writes, index, key)
    /\ UNCHANGED <<disk, synced, opened, options, active_file, older_files, file_ids,
                   index, seq_num, open_err, hist>>
    /\ UNCHANGED <<threads, iterator, codec>>

\* WriteBatch::delete in the runs that record no result
BatchDelete(key) == BatchDeleteEffect(key) /\ UNCHANGED returned

\* the appends of WriteBatch::commit, lines 81-101, up to the n-th of its
\* Cardinality(staged) + 1 appends (the last one is the finish record)
CommitAppends(e, staged, order, n, seq, bid) ==
    LET size == Cardinality(DOMAIN staged)
        r == AppendStaged(e, staged, order, IF n > size THEN size ELSE n, seq, bid,
                          options.sync_write)
        fin == append_log_record(r.e, FinishRecord(seq, bid), options.sync_write)
    IN IF n <= size THEN r
       ELSE [e |-> IF options.wb_sync_writes
                   THEN SyncFile(fin.e, fin.e.active_file.file_id) ELSE fin.e,
             positions |-> r.positions]

RECURSIVE WroteAll(_, _, _)
WroteAll(h, staged, keys) ==
    IF keys = {} THEN h
    ELSE LET k == CHOOSE x \in keys : TRUE
         IN WroteAll(Wrote(h, k, StagedResult(staged[k])), staged, keys \ {k})

\* a commit that takes a batch of any size
CommitResultAnySize(staged, max_batch_size) == Ok(<<>>)

\* what WriteBatch::commit returns when every append succeeds
CommitResult(staged, max_batch_size) ==
    IF staged = EmptyMap THEN Ok(<<>>)
    ELSE IF Cardinality(DOMAIN staged) > max_batch_size THEN Err("BatchTooLarge")
    ELSE Ok(<<>>)

\* WriteBatch::commit
CommitEffect ==
    /\ opened
    /\ IF pending_writes = EmptyMap \/ CommitResult(pending_writes, options.max_batch_size) # Ok(<<>>)
       THEN UNCHANGED <<disk, synced, active_file, older_files, index, seq_num,
                        pending_writes, hist>>
       ELSE /\ hist.appended + Cardinality(DOMAIN pending_writes) + 1 <= MaxRecords
            /\ \E order \in Orders(DOMAIN pending_writes) :
                 LET size == Cardinality(DOMAIN pending_writes)
                     c == CommitAppends(Files, pending_writes, order, size + 1,
                                        seq_num, hist.appended + 1)
                 IN /\ SetFiles(c.e)
                    /\ seq_num' = FetchAdd(seq_num)
                    /\ index' = ApplyStaged(index, pending_writes, c.positions)
                    /\ pending_writes' = EmptyMap
                    /\ hist' = [WroteAll(hist, pending_writes, DOMAIN pending_writes)
                                  EXCEPT !.appended = @ + size + 1]
    /\ UNCHANGED <<opened, options, file_ids, open_err>>
    /\ UNCHANGED <<threads, iterator, codec>>

\* WriteBatch::commit in the runs that record no result
Commit == CommitEffect /\ UNCHANGED returned

\* ------------------------------------------------------ restart and crash

\* what a crash can leave of the files: of each file every synced record
\* and any number of the records appended after its last sync
AfterCrash(e) ==
    {[f \in DOMAIN e.disk |-> SubSeq(e.disk[f], 1, keep[f])] :
        keep \in {k \in [DOMAIN e.disk -> 0..MaxRecords] :
                     \A f \in DOMAIN e.disk :
                        e.synced[f] <= k[f] /\ k[f] <= Len(e.disk[f])}}

\* the Engine value and its batch are gone; s is what is durable of d
Stopped(d, s) ==
    /\ disk' = d
    /\ synced' = s
    /\ opened' = FALSE
    /\ active_file' = [file_id |-> INITIAL_FILE_ID, write_offset |-> 0]
    /\ older_files' = {}
    /\ file_ids' = <<>>
    /\ index' = EmptyMap
    /\ seq_num' = 0
    /\ pending_writes' = EmptyMap
    /\ UNCHANGED <<options, open_err>>
    /\ UNCHANGED <<threads, iterator, returned, codec>>

AllDurable(d) == [f \in DOMAIN d |-> Len(d[f])]

\* With sync_write every completed write is durable and the properties keep
\* what they remember; without it nothing is promised after a crash and
\* they forget what was written.
Crashed(h) ==
    IF options.sync_write THEN [h EXCEPT !.touched = {}]
    ELSE [h EXCEPT !.last = [k \in Keys |-> Err("Unknown")],
                   !.maybe = [k \in Keys |-> {}],
                   !.touched = {}]

\* the engine is dropped and the process lives on: no byte is lost
Drop ==
    /\ opened
    /\ Stopped(disk, synced)
    /\ hist' = [hist EXCEPT !.touched = {}]

\* the machine crashes between two calls
Crash ==
    /\ opened
    /\ \E d \in AfterCrash(Files) : Stopped(d, AllDurable(d))
    /\ hist' = Crashed(hist)

RECURSIVE MaybeAll(_, _, _)
MaybeAll(h, staged, keys) ==
    IF keys = {} THEN h
    ELSE LET k == CHOOSE x \in keys : TRUE
         IN MaybeAll([h EXCEPT !.maybe[k] = @ \cup {StagedResult(staged[k])}],
                     staged, keys \ {k})

\* the machine crashes inside WriteBatch::commit, after n of its appends
CommitCrash ==
    /\ opened
    /\ pending_writes # EmptyMap
    /\ Cardinality(DOMAIN pending_writes) <= options.max_batch_size
    /\ \E order \in Orders(DOMAIN pending_writes) :
       \E n \in 1..(Cardinality(DOMAIN pending_writes) + 1) :
         /\ hist.appended + n <= MaxRecords
         /\ LET c == CommitAppends(Files, pending_writes, order, n, seq_num, hist.appended + 1)
            IN \E d \in AfterCrash(c.e) : Stopped(d, AllDurable(d))
         /\ hist' = [Crashed(MaybeAll(hist, pending_writes, DOMAIN pending_writes))
                       EXCEPT !.appended = @ + n]

\* the machine crashes inside WriteBatch::commit while the n-th of its appends
\* is writing: the appends before it are in the files, and of the frame of
\* the n-th the first `written` bytes
CommitCrashPartial ==
    /\ opened
    /\ pending_writes # EmptyMap
    /\ Cardinality(DOMAIN pending_writes) <= options.max_batch_size
    /\ \E order \in Orders(DOMAIN pending_writes) :
       \E n \in 1..(Cardinality(DOMAIN pending_writes) + 1) :
         /\ hist.appended + n <= MaxRecords
         /\ \E c \in {CommitAppends(Files, pending_writes, order, n, seq_num,
                                     hist.appended + 1)} :
            \E f \in {c.e.disk[c.e.active_file.file_id]} :
            \E written \in 1..(encoded_length(f[Len(f)]) - 1) :
            \E d \in {[c.e.disk EXCEPT ![c.e.active_file.file_id] =
                         SubSeq(f, 1, Len(f) - 1) \o <<TornRecord(f[Len(f)], written)>>]} :
               Stopped(d, AllDurable(d))
         /\ hist' = [Crashed(MaybeAll(hist, pending_writes, DOMAIN pending_writes))
                       EXCEPT !.appended = @ + n]

\* Engine::open on the directory as it is
Open ==
    /\ ~opened
    /\ LET empty == DOMAIN disk = {}
           ids == OpenFileIds(disk)
           l == load_index_from_data_files(disk, ids)
       IN IF empty
          THEN /\ disk' = MapPut(EmptyMap, INITIAL_FILE_ID, <<>>)
               /\ synced' = MapPut(EmptyMap, INITIAL_FILE_ID, 0)
               /\ opened' = TRUE
               /\ active_file' = [file_id |-> INITIAL_FILE_ID, write_offset |-> 0]
               /\ older_files' = {}
               /\ file_ids' = <<>>
               /\ index' = EmptyMap
               /\ seq_num' = 1
               /\ open_err' = "Ok"
          ELSE IF l.panic \/ l.err # "Ok"
          THEN /\ open_err' = (IF l.panic THEN "Panic" ELSE l.err)
               /\ UNCHANGED <<disk, synced, opened, active_file, older_files, file_ids,
                              index, seq_num>>
          ELSE /\ opened' = TRUE
               \* all files but the one with the largest id go to older_files
               /\ older_files' = {ids[i] : i \in 2..Len(ids)}
               /\ active_file' = [file_id |-> ids[1], write_offset |-> l.offset]
               /\ file_ids' = ids
               /\ index' = l.index
               /\ seq_num' = OpenSeqNum(l.seq)
               /\ open_err' = "Ok"
               /\ UNCHANGED <<disk, synced>>
    /\ UNCHANGED <<options, pending_writes, hist>>
    /\ UNCHANGED <<threads, iterator, returned, codec>>

Next ==
    \/ \E key \in Keys, value \in Values : Put(key, value)
    \/ \E key \in Keys : Get(key)
    \/ \E key \in Keys : Delete(key)
    \/ Sync
    \/ \E key \in Keys, value \in BatchValues : BatchPut(key, value)
    \/ \E key \in Keys : BatchDelete(key)
    \/ Commit
    \/ Drop
    \/ Crash
    \/ CommitCrash
    \/ Open

Spec == Init /\ [][Next]_vars

\* the runs in which the machine never crashes
NextNoCrash ==
    \/ \E key \in Keys, value \in Values : Put(key, value)
    \/ \E key \in Keys : Get(key)
    \/ \E key \in Keys : Delete(key)
    \/ Sync
    \/ \E key \in Keys, value \in BatchValues : BatchPut(key, value)
    \/ \E key \in Keys : BatchDelete(key)
    \/ Commit
    \/ Drop
    \/ Open

SpecNoCrash == Init /\ [][NextNoCrash]_vars

\* the runs in which a crash inside commit can stop a write halfway.  Once
\* the log holds records of a commit without its finish record the runs go
\* on with restarts and reads only.
UnfinishedCommits(dsk) ==
    LET recs == UNION {{dsk[f][i] : i \in 1..Len(dsk[f])} : f \in DOMAIN dsk}
    IN {r.bid : r \in {x \in recs : x.bid # 0}}
          \ {r.bid : r \in {x \in recs : x.record_type = TXNFINISHED}}

NextTorn ==
    \/ UnfinishedCommits(disk) = {} /\ \E key \in Keys, value \in Values : Put(key, value)
    \/ \E key \in Keys : Get(key)
    \/ UnfinishedCommits(disk) = {} /\ \E key \in Keys : Delete(key)
    \/ UnfinishedCommits(disk) = {}
          /\ \E key \in Keys, value \in BatchValues : BatchPut(key, value)
    \/ UnfinishedCommits(disk) = {} /\ \E key \in Keys : BatchDelete(key)
    \/ Commit
    \/ CommitCrash
    \/ CommitCrashPartial
    \/ Drop
    \/ Open

InitTorn == Init /\ options.data_file_size = SmallFile

SpecTorn == InitTorn /\ [][NextTorn]_vars

\* ------------------------------------------------------ concurrent calls

\* Each action below is one step of one thread: the part of a call that
\* runs under one lock.  Between two steps of a thread the other threads
\* can take steps.

\* the part of the state no thread step changes
ThreadFrame ==
    UNCHANGED <<opened, options, file_ids, pending_writes, open_err, iterator, returned,
                codec>>

Appended(h) == [h EXCEPT !.appended = @ + 1]

\* Engine::put, lines 96-103: the record is appended under the write lock
\* of the active file; the index is not yet updated
PutAppend(t, key, value) ==
    /\ opened
    /\ threads[t].pc = "idle"
    /\ key # EmptyKey
    /\ hist.appended < MaxRecords
    /\ LET record == LogRecord(
               log_record_key_with_seq_num(key, NON_TRANSACTION_SEQ_NUM),
               value, NORMAL, 0)
           a == append_log_record(Files, record, options.sync_write)
       IN /\ SetFiles(a.e)
          /\ threads' = [threads EXCEPT ![t] =
                            [Idle EXCEPT !.pc = "put_index", !.key = key, !.pos = a.pos]]
    /\ hist' = Appended(hist)
    /\ UNCHANGED <<index, seq_num>>
    /\ ThreadFrame

\* Engine::put, lines 105-109: index.put under the lock of the index
PutIndex(t) ==
    /\ threads[t].pc = "put_index"
    /\ index' = IndexPut(index, threads[t].key, threads[t].pos)
    /\ threads' = [threads EXCEPT ![t] = Idle]
    /\ UNCHANGED <<disk, synced, active_file, older_files, seq_num, hist>>
    /\ ThreadFrame

\* Engine::delete, lines 162-166: the index lookup; a key that is not in
\* the index makes the call return
DeleteLookup(t, key) ==
    /\ opened
    /\ threads[t].pc = "idle"
    /\ key # EmptyKey
    /\ threads' = [threads EXCEPT ![t] =
                      IF key \in DOMAIN index
                      THEN [Idle EXCEPT !.pc = "delete_append", !.key = key]
                      ELSE Idle]
    /\ UNCHANGED <<disk, synced, active_file, older_files, index, seq_num, hist>>
    /\ ThreadFrame

\* Engine::delete, lines 167-173: the DELETE record is appended
DeleteAppend(t) ==
    /\ threads[t].pc = "delete_append"
    /\ hist.appended < MaxRecords
    /\ LET log_record == LogRecord(
               log_record_key_with_seq_num(threads[t].key, NON_TRANSACTION_SEQ_NUM),
               <<>>, DELETE, 0)
           a == append_log_record(Files, log_record, options.sync_write)
       IN /\ SetFiles(a.e)
          /\ threads' = [threads EXCEPT ![t].pc = "delete_index", ![t].pos = a.pos]
    /\ hist' = Appended(hist)
    /\ UNCHANGED <<index, seq_num>>
    /\ ThreadFrame

\* what Engine::delete returns after its index.delete
DeleteIndexResult(idx, key) ==
    IF key \in DOMAIN idx THEN Ok(<<>>) ELSE Err("FailedToUpdateIndex")

\* Engine::delete, lines 174-178: index.delete under the lock of the index
DeleteIndex(t) ==
    /\ threads[t].pc = "delete_index"
    /\ index' = IndexDelete(index, threads[t].key)
    /\ threads' = [threads EXCEPT ![t] = Idle]
    /\ UNCHANGED <<disk, synced, active_file, older_files, seq_num, hist>>
    /\ ThreadFrame

\* the calls of commit that hold batch_commit_lock
CommitPcs == {"commit_append", "commit_apply"}

\* a commit that does not wait for batch_commit_lock
BatchCommitLockIgnored == TRUE

\* batch_commit_lock can be taken
BatchCommitLockFree == \A t \in Threads : threads[t].pc \notin CommitPcs

\* the staged maps of the batches the threads commit: each thread has a
\* batch of its own
ThreadBatches ==
    {m \in UNION {[K -> {StagedRecord(<<>>, <<7>>, NORMAL)}] : K \in SUBSET Keys} :
        DOMAIN m # {}}

\* a staged map with the key of each record filled in
Staged(m) == [k \in DOMAIN m |-> StagedRecord(k, m[k].value, m[k].record_type)]

\* WriteBatch::commit, lines 66-79: the checks, batch_commit_lock and
\* fetch_add; order is the iteration order of the staged map
CommitBegin(t, staged) ==
    /\ opened
    /\ threads[t].pc = "idle"
    /\ CommitResult(staged, options.max_batch_size) = Ok(<<>>)
    /\ BatchCommitLockFree
    /\ hist.appended + Cardinality(DOMAIN staged) + 1 <= MaxRecords
    /\ \E order \in Orders(DOMAIN staged) :
          threads' = [threads EXCEPT ![t] =
              [Idle EXCEPT !.pc = "commit_append", !.pending_writes = staged,
                           !.order = order, !.seq_num = seq_num,
                           !.bid = hist.appended + 1]]
    /\ seq_num' = FetchAdd(seq_num)
    /\ UNCHANGED <<disk, synced, active_file, older_files, index, hist>>
    /\ ThreadFrame

\* WriteBatch::commit, lines 81-90: one pass of the append loop
CommitAppend(t) ==
    /\ threads[t].pc = "commit_append"
    /\ threads[t].n < Len(threads[t].order)
    /\ LET th == threads[t]
           rec == th.pending_writes[th.order[th.n + 1]]
           a == append_log_record(
                    Files,
                    LogRecord(log_record_key_with_seq_num(rec.key, th.seq_num),
                              rec.value, rec.record_type, th.bid),
                    options.sync_write)
       IN /\ SetFiles(a.e)
          /\ threads' = [threads EXCEPT ![t].n = @ + 1,
                                        ![t].positions = MapPut(@, rec.key, a.pos)]
    /\ hist' = Appended(hist)
    /\ UNCHANGED <<index, seq_num>>
    /\ ThreadFrame

\* WriteBatch::commit, lines 92-101: the finish record and the sync
CommitFinish(t) ==
    /\ threads[t].pc = "commit_append"
    /\ threads[t].n = Len(threads[t].order)
    /\ LET th == threads[t]
           fin == append_log_record(Files, FinishRecord(th.seq_num, th.bid),
                                    options.sync_write)
       IN SetFiles(IF options.wb_sync_writes
                   THEN SyncFile(fin.e, fin.e.active_file.file_id) ELSE fin.e)
    /\ threads' = [threads EXCEPT ![t].pc = "commit_apply"]
    /\ hist' = Appended(hist)
    /\ UNCHANGED <<index, seq_num>>
    /\ ThreadFrame

\* WriteBatch::commit, lines 102-117: the index updates, the clear of the
\* staged map and the release of batch_commit_lock.  Each index update
\* takes the lock of the index by itself; updates of different keys
\* commute, so they are taken as one step.
CommitApply(t) ==
    /\ threads[t].pc = "commit_apply"
    /\ index' = ApplyStaged(index, threads[t].pending_writes, threads[t].positions)
    /\ threads' = [threads EXCEPT ![t] = Idle]
    /\ UNCHANGED <<disk, synced, active_file, older_files, seq_num, hist>>
    /\ ThreadFrame

NextThreads ==
    \/ \E t \in Threads, key \in Keys, value \in Values : PutAppend(t, key, value)
    \/ \E t \in Threads : PutIndex(t)
    \/ \E t \in Threads, key \in Keys : DeleteLookup(t, key)
    \/ \E t \in Threads : DeleteAppend(t)
    \/ \E t \in Threads : DeleteIndex(t)
    \/ \E t \in Threads, m \in ThreadBatches : CommitBegin(t, Staged(m))
    \/ \E t \in Threads : CommitAppend(t)
    \/ \E t \in Threads : CommitFinish(t)
    \/ \E t \in Threads : CommitApply(t)

\* several threads call put, delete and commit on one engine
SpecThreads == Init /\ [][NextThreads]_vars

\* the directory an earlier run of the engine left: with data_file_size =
\* LargeFile, put(k, 24 bytes) filled file 0 with 33 bytes and put(k, 15
\* bytes) rolled to file 1; the engine was then dropped
LeftFiles ==
    MapPut(MapPut(EmptyMap, 0,
                  <<LogRecord(log_record_key_with_seq_num(<<1>>, NON_TRANSACTION_SEQ_NUM),
                              [i \in 1..24 |-> 9], NORMAL, 0)>>),
           1, <<LogRecord(log_record_key_with_seq_num(<<1>>, NON_TRANSACTION_SEQ_NUM),
                          [i \in 1..15 |-> 9], NORMAL, 0)>>)

InitThreadsReopen ==
    /\ options = [data_file_size |-> LargeFile, sync_write |-> FALSE,
                  wb_sync_writes |-> TRUE, max_batch_size |-> 2]
    /\ disk = LeftFiles
    /\ synced = AllDurable(LeftFiles)
    /\ opened = FALSE
    /\ active_file = [file_id |-> INITIAL_FILE_ID, write_offset |-> 0]
    /\ older_files = {}
    /\ file_ids = <<>>
    /\ index = EmptyMap
    /\ seq_num = 1
    /\ pending_writes = EmptyMap
    /\ open_err = "Ok"
    /\ hist = [last |-> [k \in Keys |-> IF k = <<1>> THEN Ok(LeftFiles[1][1].value)
                                        ELSE Err("KeyNotFound")],
               maybe |-> [k \in Keys |-> {}],
               touched |-> {},
               appended |-> 0]
    /\ threads = [t \in Threads |-> Idle]
    /\ iterator = NoIterator
    /\ returned = NoCall
    /\ codec = NoDataFile

NextThreadsReopen ==
    \/ Open
    \/ \E t \in Threads, key \in Keys, value \in Values : PutAppend(t, key, value)
    \/ \E t \in Threads : PutIndex(t)
    \/ \E t \in Threads, m \in ThreadBatches : CommitBegin(t, Staged(m))
    \/ \E t \in Threads : CommitAppend(t)
    \/ \E t \in Threads : CommitFinish(t)
    \/ \E t \in Threads : CommitApply(t)

\* several threads call put and commit on an engine opened on a directory
\* with data files
SpecThreadsReopen == InitThreadsReopen /\ [][NextThreadsReopen]_vars

\* ------------------------------------------------------------ iterators

\* user keys, seek targets and options of the runs with an iterator
IterKeys == {<<1>>, <<1, 2>>, <<2>>}
IterBatchKeys == {<<1, 2>>}
SeekKeys == {<<>>, <<1, 1>>, <<1, 2>>, <<3>>}
IteratorOptions == [prefix : {<<>>, <<1>>}, reverse : BOOLEAN]

\* Ord for Vec<u8>: byte-wise lexicographic, a proper prefix comes first
RECURSIVE cmp(_, _)
cmp(x, y) ==
    IF x = <<>> /\ y = <<>> THEN "Equal"
    ELSE IF x = <<>> THEN "Less"
    ELSE IF y = <<>> THEN "Greater"
    ELSE IF x[1] < y[1] THEN "Less"
    ELSE IF x[1] > y[1] THEN "Greater"
    ELSE cmp(Tail(x), Tail(y))

\* Ordering::reverse
reverse(o) == IF o = "Less" THEN "Greater" ELSE IF o = "Greater" THEN "Less" ELSE o

\* a prefix test that accepts every key
starts_with_anything(key, prefix) == TRUE

\* slice::starts_with
starts_with(key, prefix) ==
    Len(prefix) <= Len(key) /\ SubSeq(key, 1, Len(prefix)) = prefix

\* BTreeMap::iter: the entries in ascending key order
RECURSIVE BTreeMapIter(_)
BTreeMapIter(tree) ==
    IF DOMAIN tree = {} THEN <<>>
    ELSE LET first == CHOOSE k \in DOMAIN tree :
                          \A x \in DOMAIN tree : x = k \/ cmp(k, x) = "Less"
         IN <<[key |-> first, pos |-> tree[first]]>> \o BTreeMapIter(MapRemove(tree, first))

\* an iter that forgets options.reverse
BTreeIterForward(tree, opts) == BTreeMapIter(tree)

\* BTree::iter: the items of a new BTreeIterator
BTreeIter(tree, opts) ==
    IF opts.reverse THEN Reverse(BTreeMapIter(tree)) ELSE BTreeMapIter(tree)

\* a comparator that forgets options.reverse
SeekCmpForward(x, key, opts) == cmp(x, key)

\* the comparator BTreeIterator::seek hands to binary_search_by
SeekCmp(x, key, opts) == IF opts.reverse THEN reverse(cmp(x, key)) ELSE cmp(x, key)

\* slice::binary_search_by on items (0-based): the index of the equal item,
\* or the index at which the key would be inserted
RECURSIVE binary_search_by(_, _, _, _, _)
binary_search_by(items, key, opts, left, right) ==
    IF left >= right THEN left
    ELSE LET mid == left + ((right - left) \div 2)
             c == SeekCmp(items[mid + 1].key, key, opts)
         IN IF c = "Less" THEN binary_search_by(items, key, opts, mid + 1, right)
            ELSE IF c = "Greater" THEN binary_search_by(items, key, opts, left, mid)
            ELSE mid

\* BTreeIterator::seek: the new curr_index
seek(items, key, opts) == binary_search_by(items, key, opts, 0, Len(items))

\* BTreeIterator::next: the item it returns (found) and the new curr_index
RECURSIVE next(_, _, _)
next(items, curr_index, opts) ==
    IF curr_index >= Len(items)
    THEN [found |-> FALSE, item |-> [key |-> <<>>, pos |-> LogRecordPos(0, 0)],
          curr_index |-> curr_index]
    ELSE LET item == items[curr_index + 1]
         IN IF opts.prefix = <<>> \/ starts_with(item.key, opts.prefix)
            THEN [found |-> TRUE, item |-> item, curr_index |-> curr_index + 1]
            ELSE next(items, curr_index + 1, opts)

\* Iterator::next: the value read at the position the item holds
ItemValue(e, idx, item) == get_value_by_position(e, item.pos)

\* the part of the state no call on the iterator changes
IterFrame ==
    UNCHANGED <<disk, synced, opened, options, active_file, older_files, file_ids,
                index, seq_num, pending_writes, open_err, hist, threads, returned,
                codec>>

\* Engine::iter
IterNew(opts) ==
    /\ opened
    /\ iterator' = [created |-> TRUE,
                    items |-> BTreeIter(index, opts),
                    curr_index |-> 0,
                    options |-> opts,
                    snapshot |-> [k \in DOMAIN index |->
                                     [pos |-> index[k],
                                      value |-> get_value_by_position(Files, index[k]),
                                      written |-> hist.last[k]]],
                    sought |-> [kind |-> "start", key |-> <<>>],
                    seen |-> <<>>,
                    done |-> FALSE]
    /\ IterFrame

\* Iterator::rewind
IterRewind ==
    /\ iterator.created
    /\ iterator' = [iterator EXCEPT !.curr_index = 0,
                                    !.sought = [kind |-> "start", key |-> <<>>],
                                    !.seen = <<>>, !.done = FALSE]
    /\ IterFrame

\* Iterator::seek
IterSeek(key) ==
    /\ iterator.created
    /\ iterator' = [iterator EXCEPT
                        !.curr_index = seek(iterator.items, key, iterator.options),
                        !.sought = [kind |-> "seek", key |-> key],
                        !.seen = <<>>, !.done = FALSE]
    /\ IterFrame

\* Iterator::next (a value that cannot be read makes it abort; seen then
\* keeps the error); seen keeps what the calls since the last positioning
\* returned and done that one of them returned None
IterNext ==
    /\ iterator.created
    /\ LET r == next(iterator.items, iterator.curr_index, iterator.options)
       IN iterator' =
             [iterator EXCEPT
                 !.curr_index = r.curr_index,
                 !.seen = IF r.found
                          THEN Append(@, [key |-> r.item.key, pos |-> r.item.pos,
                                          value |-> ItemValue(Files, index, r.item)])
                          ELSE @,
                 !.done = @ \/ ~r.found]
    /\ IterFrame

\* the engine of the runs with an iterator: one thread, one data file size
InitIter ==
    /\ options \in {o \in OptionChoices : o.data_file_size = LargeFile}
    /\ disk = MapPut(EmptyMap, INITIAL_FILE_ID, <<>>)
    /\ synced = MapPut(EmptyMap, INITIAL_FILE_ID, 0)
    /\ opened = TRUE
    /\ active_file = [file_id |-> INITIAL_FILE_ID, write_offset |-> 0]
    /\ older_files = {}
    /\ file_ids = <<>>
    /\ index = EmptyMap
    /\ seq_num = 1
    /\ pending_writes = EmptyMap
    /\ open_err = "Ok"
    /\ hist = [last |-> [k \in IterKeys |-> Err("KeyNotFound")],
               maybe |-> [k \in IterKeys |-> {}],
               touched |-> {},
               appended |-> 0]
    /\ threads = [t \in Threads |-> Idle]
    /\ iterator = NoIterator
    /\ returned = NoCall
    /\ codec = NoDataFile

\* the log has room for n more records
IterRoom(n) == hist.appended + n <= MaxIterRecords

NextIter ==
    \/ \E key \in IterKeys, value \in Values : IterRoom(1) /\ Put(key, value)
    \/ \E key \in IterKeys : IterRoom(1) /\ Delete(key)
    \/ \E key \in IterBatchKeys, value \in BatchValues : BatchPut(key, value)
    \/ IterRoom(Cardinality(DOMAIN pending_writes) + 1) /\ Commit
    \/ \E opts \in IteratorOptions : IterNew(opts)
    \/ IterRewind
    \/ \E key \in SeekKeys : IterSeek(key)
    \/ IterNext

SpecIter == InitIter /\ [][NextIter]_vars

\* the runs in which an iterator is created on an engine that was opened
\* on a directory with data files: one key, values of four lengths, the
\* larger data file size
ReopenKeys == {<<1>>}
ReopenValues == {<<>>, <<8, 8>>,
                 <<9, 9, 9, 9, 9, 9, 9, 9, 9, 9, 9, 9, 9, 9, 9>>,
                 <<9, 9, 9, 9, 9, 9, 9, 9, 9, 9, 9, 9, 9, 9, 9, 9, 9, 9, 9, 9, 9, 9, 9, 9>>}

InitIterReopen ==
    /\ Init
    /\ options.data_file_size = LargeFile

NextIterReopen ==
    \/ \E key \in ReopenKeys, value \in ReopenValues : Put(key, value)
    \/ \E key \in ReopenKeys : Delete(key)
    \/ ~iterator.created /\ Drop
    \/ Open
    \/ IterNew([prefix |-> <<>>, reverse |-> FALSE])
    \/ IterRewind
    \/ IterNext

SpecIterReopen == InitIterReopen /\ [][NextIterReopen]_vars

\* the runs without sync_write in which the machine can crash: one key,
\* values that roll the active file of the larger size
NextUnsynced ==
    \/ \E key \in ReopenKeys, value \in ReopenValues : Put(key, value)
    \/ \E key \in ReopenKeys : Delete(key)
    \/ Sync
    \/ \E key \in ReopenKeys, value \in BatchValues : BatchPut(key, value)
    \/ Commit
    \/ Drop
    \/ Crash
    \/ CommitCrash
    \/ Open

SpecUnsynced == InitIterReopen /\ [][NextUnsynced]_vars

\* ------------------------------------------------- a data file by itself

\* A DataFile used by itself, as the tests of data_file.rs and log_record.rs
\* use it: records are written as the bytes LogRecord::encode gives, a bit of
\* the file can flip, and read_log_record decodes the bytes at an offset.

\* the records written in these runs: NORMAL and DELETE records with the
\* framed keys of put and delete
MaxCodecRecords == 2
CodecRecords ==
    {LogRecord(log_record_key_with_seq_num(key, NON_TRANSACTION_SEQ_NUM), value, type, 0) :
        key \in Keys, value \in Values, type \in {NORMAL, DELETE}}

\* the offset of the i-th record written: the sum of the lengths of the
\* frames written before it
RECURSIVE FrameStart(_, _)
FrameStart(records, i) ==
    IF i <= 1 THEN 0 ELSE FrameStart(records, i - 1) + encoded_length(records[i - 1])

FlipBit(b, i) == IF (b \div (2 ^ i)) % 2 = 1 THEN b - 2 ^ i ELSE b + 2 ^ i

\* DataFile::write(&rec.encode())
DataFileWrite(rec) ==
    /\ Len(codec.records) < MaxCodecRecords
    /\ codec.flipped = 0
    /\ codec' = [codec EXCEPT !.records = Append(@, rec),
                              !.bytes = @ \o encode(rec),
                              !.read = 0,
                              !.result = NoDataFile.result]
    /\ UNCHANGED <<disk, synced, opened, options, active_file, older_files, file_ids,
                   index, seq_num, pending_writes, open_err, hist, threads, iterator,
                   returned>>

\* bit i of byte n of the file flips
DataFileFlip(n, i) ==
    /\ codec.flipped = 0
    /\ n \in 1..Len(codec.bytes)
    /\ codec' = [codec EXCEPT !.bytes[n] = FlipBit(@, i),
                              !.flipped = n,
                              !.read = 0,
                              !.result = NoDataFile.result]
    /\ UNCHANGED <<disk, synced, opened, options, active_file, older_files, file_ids,
                   index, seq_num, pending_writes, open_err, hist, threads, iterator,
                   returned>>

\* DataFile::read_log_record at the offset of the r-th record written
DataFileRead(r) ==
    /\ r \in 1..Len(codec.records)
    /\ codec' = [codec EXCEPT
                    !.read = r,
                    !.result = ReadLogRecord(codec.bytes, FrameStart(codec.records, r))]
    /\ UNCHANGED <<disk, synced, opened, options, active_file, older_files, file_ids,
                   index, seq_num, pending_writes, open_err, hist, threads, iterator,
                   returned>>

\* the bytes of the longest file of these runs
MaxCodecBytes == 22

NextCodec ==
    \/ \E rec \in CodecRecords : DataFileWrite(rec)
    \/ \E n \in 1..MaxCodecBytes, i \in 0..7 : DataFileFlip(n, i)
    \/ \E r \in 1..MaxCodecRecords : DataFileRead(r)

\* the engine is left alone in these runs
InitCodec ==
    /\ Init
    /\ options.data_file_size = LargeFile

SpecCodec == InitCodec /\ [][NextCodec]_vars

\* ------------------------------------------------------ results of calls

\* The runs below record, with each call, the call and what it returned.

\* the keys of the calls: the empty key is among them
CallKeys == Keys \cup {EmptyKey}

Returned(op, key, res) == [op |-> op, key |-> key, res |-> res]

\* what WriteBatch::put and WriteBatch::delete return
BatchPutResult(key) == IF key = EmptyKey THEN Err("KeyIsEmpty") ELSE Ok(<<>>)
BatchDeleteResult(key) == IF key = EmptyKey THEN Err("KeyIsEmpty") ELSE Ok(<<>>)

PutReturns(key, value) ==
    /\ PutEffect(key, value)
    /\ returned' = Returned("put", key, PutResult(key))

GetReturns(key) ==
    /\ opened
    /\ returned' = Returned("get", key, EngineGet(Files, index, key))
    /\ UNCHANGED <<disk, synced, opened, options, active_file, older_files, file_ids,
                   index, seq_num, pending_writes, open_err, hist, threads, iterator,
                   codec>>

DeleteReturns(key) ==
    /\ DeleteEffect(key)
    /\ returned' = Returned("delete", key, DeleteResult(index, key))

BatchPutReturns(key, value) ==
    /\ BatchPutEffect(key, value)
    /\ returned' = Returned("batch_put", key, BatchPutResult(key))

BatchDeleteReturns(key) ==
    /\ BatchDeleteEffect(key)
    /\ returned' = Returned("batch_delete", key, BatchDeleteResult(key))

CommitReturns ==
    /\ CommitEffect
    /\ returned' = Returned("commit", <<>>,
                            CommitResult(pending_writes, options.max_batch_size))

NextCalls ==
    \/ \E key \in CallKeys, value \in Values : PutReturns(key, value)
    \/ \E key \in CallKeys : GetReturns(key)
    \/ \E key \in CallKeys : DeleteReturns(key)
    \/ \E key \in CallKeys, value \in BatchValues : BatchPutReturns(key, value)
    \/ \E key \in CallKeys : BatchDeleteReturns(key)
    \/ CommitReturns

\* one thread calls the engine and its batch; every result is recorded
SpecCalls == Init /\ [][NextCalls]_vars

\* --------------------------------------------------------- failing appends

\* a data file size between the two of OptionChoices, and values long enough
\* to fill such a file with few records
MidFile == 48
MediumValue == 11
LongValue == 20
Filled(n) == [i \in 1..n |-> 8]
FailValues == {<<>>, Filled(MediumValue), Filled(LongValue)}

\* the places in Engine::append_log_record at which a file operation can
\* return an error: the sync of the full active file (line 192), the write
\* (line 207) and the sync after the write (line 211)
FailurePoints == {"roll_sync", "write", "sync"}

CanFailAt(e, record, sync_write, at) ==
    /\ at = "roll_sync" => NeedsRoll(e, encoded_length(record))
    /\ at = "sync" => sync_write

\* Engine::append_log_record when the operation at `at` fails: the files as
\* the steps before the failure left them, and the error the ? returns
append_log_record_fails(e, record, at) ==
    LET encoded_len == encoded_length(record)
        r == IF NeedsRoll(e, encoded_len) THEN RollActiveFile(e) ELSE e
        id == r.active_file.file_id
        w == [r EXCEPT !.disk = MapPut(@, id, Append(r.disk[id], record)),
                       !.active_file.write_offset = @ + encoded_len]
    IN IF at = "roll_sync" THEN [e |-> e, err |-> "FailedToSyncDataFile", written |-> 0]
       ELSE IF at = "write" THEN [e |-> r, err |-> "FailedToWriteToDataFile", written |-> 0]
       ELSE [e |-> w, err |-> "FailedToSyncDataFile", written |-> 1]

\* The runs hold one failing call: the three actions below are taken while
\* no failure is recorded.

\* Engine::put whose append fails: the ? of line 102 returns before line 105
PutFails(key, value, at) ==
    /\ opened
    /\ returned = NoCall
    /\ PutResult(key) = Ok(<<>>)
    /\ hist.appended < MaxRecords
    /\ LET record == LogRecord(log_record_key_with_seq_num(key, NON_TRANSACTION_SEQ_NUM),
                               value, NORMAL, 0)
           a == append_log_record_fails(Files, record, at)
       IN /\ CanFailAt(Files, record, options.sync_write, at)
          /\ SetFiles(a.e)
          /\ hist' = [hist EXCEPT !.appended = @ + a.written]
          /\ returned' = Returned("put", key, Err(a.err))
    /\ UNCHANGED <<opened, options, file_ids, index, seq_num, pending_writes, open_err>>
    /\ UNCHANGED <<threads, iterator, codec>>

\* Engine::delete whose append fails: the ? of line 173 returns before line 175
DeleteFails(key, at) ==
    /\ opened
    /\ returned = NoCall
    /\ DeleteResult(index, key) = Ok(<<>>)
    /\ key \in DOMAIN index
    /\ hist.appended < MaxRecords
    /\ LET log_record == LogRecord(
                log_record_key_with_seq_num(key, NON_TRANSACTION_SEQ_NUM), <<>>, DELETE, 0)
           a == append_log_record_fails(Files, log_record, at)
       IN /\ CanFailAt(Files, log_record, options.sync_write, at)
          /\ SetFiles(a.e)
          /\ hist' = [hist EXCEPT !.appended = @ + a.written]
          /\ returned' = Returned("delete", key, Err(a.err))
    /\ UNCHANGED <<opened, options, file_ids, index, seq_num, pending_writes, open_err>>
    /\ UNCHANGED <<threads, iterator, codec>>

\* WriteBatch::commit whose n-th append fails: the counter is taken, the
\* appends before the n-th are in the files, and the ? of line 88 or 97
\* returns before the index is updated and the batch is cleared
CommitFails ==
    /\ opened
    /\ pending_writes # EmptyMap
    /\ CommitResult(pending_writes, options.max_batch_size) = Ok(<<>>)
    /\ returned = NoCall
    /\ \E order \in Orders(DOMAIN pending_writes) :
       \E n \in 1..(Cardinality(DOMAIN pending_writes) + 1) :
       \E at \in FailurePoints :
         /\ hist.appended + (n - 1) < MaxRecords
         /\ \E c \in {CommitAppends(Files, pending_writes, order, n - 1, seq_num,
                                     hist.appended + 1)} :
            \E record \in {IF n > Cardinality(DOMAIN pending_writes)
                            THEN FinishRecord(seq_num, hist.appended + 1)
                            ELSE LogRecord(
                                     log_record_key_with_seq_num(
                                         pending_writes[order[n]].key, seq_num),
                                     pending_writes[order[n]].value,
                                     pending_writes[order[n]].record_type,
                                     hist.appended + 1)} :
            \E a \in {append_log_record_fails(c.e, record, at)} :
              /\ CanFailAt(c.e, record, options.sync_write, at)
              /\ SetFiles(a.e)
              /\ hist' = [hist EXCEPT !.appended = @ + (n - 1) + a.written]
              /\ returned' = Returned("commit", <<>>, Err(a.err))
    /\ seq_num' = FetchAdd(seq_num)
    /\ UNCHANGED <<opened, options, file_ids, index, pending_writes, open_err>>
    /\ UNCHANGED <<threads, iterator, codec>>

InitFail ==
    /\ options = [data_file_size |-> MidFile, sync_write |-> TRUE,
                  wb_sync_writes |-> FALSE, max_batch_size |-> 1]
    /\ disk = MapPut(EmptyMap, INITIAL_FILE_ID, <<>>)
    /\ synced = MapPut(EmptyMap, INITIAL_FILE_ID, 0)
    /\ opened = TRUE
    /\ active_file = [file_id |-> INITIAL_FILE_ID, write_offset |-> 0]
    /\ older_files = {}
    /\ file_ids = <<>>
    /\ index = EmptyMap
    /\ seq_num = 1
    /\ pending_writes = EmptyMap
    /\ open_err = "Ok"
    /\ hist = [last |-> [k \in Keys |-> Err("KeyNotFound")],
               maybe |-> [k \in Keys |-> {}],
               touched |-> {},
               appended |-> 0]
    /\ threads = [t \in Threads |-> Idle]
    /\ iterator = NoIterator
    /\ returned = NoCall
    /\ codec = NoDataFile

FailKeys == {<<1>>}

NextFail ==
    \/ \E key \in FailKeys, value \in FailValues : Put(key, value)
    \/ \E key \in FailKeys, value \in BatchValues : BatchPut(key, value)
    \/ Commit
    \/ \E key \in FailKeys, value \in FailValues, at \in FailurePoints :
          PutFails(key, value, at)
    \/ \E key \in FailKeys, at \in FailurePoints : DeleteFails(key, at)
    \/ CommitFails
    \/ Drop
    \/ Open

\* the calls of one thread, each of which can fail at a file operation, and
\* restarts
SpecFail == InitFail /\ [][NextFail]_vars

\* ------------------------------------------------------------- the locks

\* Each call is taken as the sequence of lock operations it performs; a
\* thread inside a call has done the first n of them.  A guard is released
\* where it goes out of scope, in the reverse order of the declarations.

Acq(lock, mode) == [op |-> "acq", lock |-> lock, mode |-> mode]
Rel(lock) == [op |-> "rel", lock |-> lock, mode |-> "-"]

\* BTree::get, iter and list_keys: the read lock of the tree, released on
\* return
index_get_locks == <<Acq("index", "R"), Rel("index")>>

\* BTree::put and delete
index_put_locks == <<Acq("index", "W"), Rel("index")>>

\* a method of DataFile: it takes one of the locks inside the DataFile
\* (file_id, write_offset, the fd of FileIO) and drops it before it
\* returns; the locks of all data files are taken as one
data_file_locks(mode) == <<Acq("data_file", mode), Rel("data_file")>>

\* Engine::append_log_record, with and without the rollover:
\* get_write_offset, in the rollover sync and get_file_id, then write, and
\* sync and get_file_id
append_log_record_locks(roll) ==
    <<Acq("active_file", "W")>> \o
    data_file_locks("R") \o
    (IF roll
     THEN data_file_locks("R") \o <<Acq("older_files", "W"), Rel("older_files")>>
     ELSE <<>>) \o
    data_file_locks("W") \o
    data_file_locks("R") \o
    <<Rel("active_file")>>

\* a read that takes older_files before active_file
get_value_by_position_locks_older_first ==
    <<Acq("older_files", "R"), Acq("active_file", "R")>> \o
    data_file_locks("R") \o
    <<Rel("active_file"), Rel("older_files")>>

\* Engine::get_value_by_position: get_file_id and read_log_record under
\* the two read locks
get_value_by_position_locks ==
    <<Acq("active_file", "R"), Acq("older_files", "R")>> \o
    data_file_locks("R") \o
    <<Rel("older_files"), Rel("active_file")>>

\* Engine::sync and Engine::close
sync_locks ==
    <<Acq("active_file", "R")>> \o data_file_locks("R") \o <<Rel("active_file")>>

\* Engine::put
put_locks(roll) == append_log_record_locks(roll) \o index_put_locks

\* Engine::get on a key that is in the index or not
get_locks(found) ==
    index_get_locks \o (IF found THEN get_value_by_position_locks ELSE <<>>)

\* Engine::delete
delete_locks(found, roll) ==
    index_get_locks \o
    (IF found THEN append_log_record_locks(roll) \o index_put_locks ELSE <<>>)

\* Iterator::next, rewind and seek: next reads the value of the item it
\* found under the write lock of index_iter
next_locks(item) ==
    <<Acq("index_iter", "W")>> \o
    (IF item THEN get_value_by_position_locks ELSE <<>>) \o
    <<Rel("index_iter")>>

\* WriteBatch::put
batch_put_locks == <<Acq("pending_writes", "W"), Rel("pending_writes")>>

\* WriteBatch::delete
batch_delete_locks ==
    <<Acq("pending_writes", "W")>> \o index_get_locks \o <<Rel("pending_writes")>>

\* the concatenation of the lock sequences of a sequence of appends
RECURSIVE appends_locks(_)
appends_locks(rolls) ==
    IF rolls = <<>> THEN <<>>
    ELSE append_log_record_locks(Head(rolls)) \o appends_locks(Tail(rolls))

RECURSIVE index_updates_locks(_)
index_updates_locks(n) ==
    IF n = 0 THEN <<>> ELSE index_put_locks \o index_updates_locks(n - 1)

\* WriteBatch::commit of Len(rolls) - 1 staged records: rolls[i] tells
\* whether the i-th append rolls the active file; an empty or too large
\* batch returns under pending_writes alone
commit_locks(rolls, sync_writes) ==
    <<Acq("pending_writes", "W")>> \o
    (IF rolls = <<>> THEN <<>>
     ELSE <<Acq("batch_commit_lock", "W")>> \o
          appends_locks(rolls) \o
          (IF sync_writes THEN sync_locks ELSE <<>>) \o
          index_updates_locks(Len(rolls) - 1) \o
          <<Rel("batch_commit_lock")>>) \o
    <<Rel("pending_writes")>>

\* staged records of a commit in the runs with locks
MaxLockBatch == 1

\* the calls the threads make
LockCalls ==
    {put_locks(roll) : roll \in BOOLEAN}
    \cup {get_locks(found) : found \in BOOLEAN}
    \cup {delete_locks(found, roll) : found \in BOOLEAN, roll \in BOOLEAN}
    \cup {sync_locks}
    \cup {next_locks(item) : item \in BOOLEAN}
    \cup {batch_put_locks, batch_delete_locks}
    \cup {commit_locks(rolls, sync_writes) :
             rolls \in {<<>>} \cup UNION {[1..(n + 1) -> BOOLEAN] : n \in 1..MaxLockBatch},
             sync_writes \in BOOLEAN}

\* thread t is inside a call
Running(t) == threads[t].pc = "running"

\* the lock operation thread t does next
NextLockOp(t) == threads[t].order[threads[t].n + 1]

\* the mode in which thread t holds lock, "-" when it does not hold it:
\* the last of its operations on the lock so far
RECURSIVE HeldMode(_, _, _)
HeldMode(ops, n, lock) ==
    IF n = 0 THEN "-"
    ELSE IF ops[n].lock = lock THEN ops[n].mode
    ELSE HeldMode(ops, n - 1, lock)

Holds(t, lock) ==
    IF Running(t) THEN HeldMode(threads[t].order, threads[t].n, lock) ELSE "-"

\* thread t has called write() on lock and has not got it
WaitsToWrite(t, lock) ==
    /\ Running(t)
    /\ NextLockOp(t) = Acq(lock, "W")

\* parking_lot's RwLock and Mutex: a writer needs the lock free; a reader
\* needs it free of a writer, and waits behind a writer that is waiting
CanAcquire(t, lock, mode) ==
    IF mode = "W"
    THEN \A u \in Threads \ {t} : Holds(u, lock) = "-"
    ELSE \A u \in Threads \ {t} : Holds(u, lock) # "W" /\ ~WaitsToWrite(u, lock)

\* the rest of the state, which the lock operations leave alone
LockFrame ==
    UNCHANGED <<disk, synced, opened, options, active_file, older_files, file_ids,
                index, seq_num, pending_writes, open_err, hist, iterator,
                returned, codec>>

\* thread t starts a call
LockCall(t, call) ==
    /\ opened
    /\ ~Running(t)
    /\ threads' = [threads EXCEPT ![t] = [Idle EXCEPT !.pc = "running", !.order = call]]
    /\ LockFrame

\* thread t takes the lock it asked for
LockAcquire(t) ==
    /\ Running(t)
    /\ NextLockOp(t).op = "acq"
    /\ CanAcquire(t, NextLockOp(t).lock, NextLockOp(t).mode)
    /\ threads' = [threads EXCEPT ![t].n = @ + 1]
    /\ LockFrame

\* thread t drops a guard; after the last one the call returns
LockRelease(t) ==
    /\ Running(t)
    /\ NextLockOp(t).op = "rel"
    /\ threads' = [threads EXCEPT ![t] =
                      IF threads[t].n + 1 = Len(threads[t].order) THEN Idle
                      ELSE [@ EXCEPT !.n = @ + 1]]
    /\ LockFrame

InitLocks == Init /\ options.data_file_size = SmallFile

NextLocks ==
    \/ \E t \in Threads, call \in LockCalls : LockCall(t, call)
    \/ \E t \in Threads : LockAcquire(t)
    \/ \E t \in Threads : LockRelease(t)

\* the lock operations of the calls of several threads
SpecLocks == InitLocks /\ [][NextLocks]_vars

\* every thread is scheduled, and a thread that waits for a lock gets it
\* when the lock is free again and again (parking_lot hands a lock over to
\* the waiting thread)
SpecLocksFair ==
    /\ SpecLocks
    /\ \A t \in Threads : WF_vars(LockRelease(t))
    /\ \A t \in Threads : SF_vars(LockAcquire(t))

\* ------------------------------------------------- terms of the properties

\* what Engine::get returns for key in the current state
GetNow(key) == EngineGet(Files, index, key)

\* the records of the log, each named by its file and its place in the file
LogPlaces == UNION {{f} \X (1..Len(disk[f])) : f \in DOMAIN disk}
RecordOf(pl) == disk[pl[1]][pl[2]]
PosOf(pl) == LogRecordPos(pl[1], RecordStart(disk[pl[1]], pl[2]))
UserKeyOf(pl) == parse_log_record_key(RecordOf(pl).key).key
SeqNumOf(pl) == parse_log_record_key(RecordOf(pl).key).seq_num

Before(p, q) == p.file_id < q.file_id \/ (p.file_id = q.file_id /\ p.offset < q.offset)

\* the commit bid wrote its TXNFINISHED record and the record is in the log
HasMarker(bid) ==
    \E pl \in LogPlaces : RecordOf(pl).record_type = TXNFINISHED /\ RecordOf(pl).bid = bid

\* a record of a put or delete, or of a commit whose marker is in the log
IsCommitted(pl) ==
    /\ RecordOf(pl).record_type # TXNFINISHED
    /\ RecordOf(pl).bid = 0 \/ HasMarker(RecordOf(pl).bid)

\* the committed records of key, and the one with the greatest (file_id, offset)
CommittedOf(key) == {pl \in LogPlaces : IsCommitted(pl) /\ UserKeyOf(pl) = key}
IsLatestCommitted(pl, key) ==
    /\ pl \in CommittedOf(key)
    /\ \A q \in CommittedOf(key) : q = pl \/ Before(PosOf(q), PosOf(pl))

Known(res) == res.err \in {"Ok", "KeyNotFound"}

\* --------------------------------------------------------------- claims

\* C1: on an open engine, get(k) returns the value of the most recent
\* put(k, v) of this engine that no delete(k) followed, for every key
\* written since the engine was opened.
C1_GetReturnsLastPut ==
    opened =>
        \A k \in hist.touched :
            hist.last[k].err = "Ok" => GetNow(k) = hist.last[k]

\* C2: after delete(k) every get(k) returns KeyNotFound until a later
\* put(k, v), and after that put get(k) returns v.
C2_NotFoundAfterDelete ==
    opened =>
        \A k \in hist.touched :
            hist.last[k].err = "KeyNotFound" => GetNow(k) = Err("KeyNotFound")

C2_PutAfterDelete ==
    \A k \in Keys, v \in Values :
        (/\ k \in hist.touched
         /\ hist.last[k].err = "KeyNotFound"
         /\ Put(k, v))
        => GetNow(k)' = Ok(v)

OnlyPutsAndDeletes == \A pl \in LogPlaces : RecordOf(pl).bid = 0

\* C3: with sync_write, once put(k, v) has returned, open succeeds after any
\* later crash and the opened engine returns for k the value v or the value
\* of a later write to k (stated for logs of puts and deletes, whatever the
\* number of data files).
C3_DurableAfterCrash ==
    (options.sync_write /\ OnlyPutsAndDeletes) =>
        /\ open_err = "Ok"
        /\ opened =>
              \A k \in Keys :
                  hist.last[k].err = "Ok"
                      => GetNow(k) \in {hist.last[k]} \cup hist.maybe[k]

\* C4: after open the index reflects every record of a commit whose marker is in the
\* log, unless a later committed record of the key replaced it, and it
\* refers to no record of a commit whose marker is not in the log.
C4_MarkedBatchVisible ==
    \A pl \in LogPlaces :
        (RecordOf(pl).bid # 0 /\ IsLatestCommitted(pl, UserKeyOf(pl))) =>
            IF RecordOf(pl).record_type = NORMAL
            THEN UserKeyOf(pl) \in DOMAIN index /\ index[UserKeyOf(pl)] = PosOf(pl)
            ELSE UserKeyOf(pl) \notin DOMAIN index

C4_UnmarkedBatchInvisible ==
    \A k \in DOMAIN index :
        \A pl \in LogPlaces :
            (PosOf(pl) = index[k] /\ RecordOf(pl).bid # 0) => HasMarker(RecordOf(pl).bid)

\* the index is the one open has built: nothing was written since
JustOpened == opened /\ file_ids # <<>> /\ hist.touched = {}

C4_BatchAtomicAcrossCrash ==
    JustOpened => (C4_MarkedBatchVisible /\ C4_UnmarkedBatchInvisible)

\* C5: when puts and deletes have rolled the active file over, get(k)
\* returns the latest value of every key, before and after a restart.
C5_LatestValueAcrossRollover ==
    (opened /\ Cardinality(DOMAIN disk) > 1 /\ OnlyPutsAndDeletes) =>
        \A k \in Keys : Known(hist.last[k]) => GetNow(k) = hist.last[k]

\* C6: for every key whose latest committed record is NORMAL, the index
\* entry is the location of that record.
C6_IndexAtLatestCommitted ==
    opened =>
        \A pl \in LogPlaces :
            (IsLatestCommitted(pl, UserKeyOf(pl)) /\ RecordOf(pl).record_type = NORMAL)
                => (UserKeyOf(pl) \in DOMAIN index /\ index[UserKeyOf(pl)] = PosOf(pl))

\* C7: every index entry k -> (file_id, offset) names the active file or an
\* older file, and offset is the first byte of a NORMAL record of that file
\* whose user key is k.
C7_IndexEntriesValid ==
    opened =>
        \A k \in DOMAIN index :
            /\ index[k].file_id = active_file.file_id \/ index[k].file_id \in older_files
            /\ index[k].file_id \in DOMAIN disk
            /\ \E pl \in LogPlaces :
                  /\ PosOf(pl) = index[k]
                  /\ RecordOf(pl).record_type = NORMAL
                  /\ UserKeyOf(pl) = k

\* a step of commit that returns success for a batch that is not empty
CommitsBatch ==
    /\ pending_writes # EmptyMap
    /\ CommitResult(pending_writes, options.max_batch_size) = Ok(<<>>)
    /\ Commit

\* C8: staging a put or delete in a batch changes the result of no get;
\* after a successful commit get returns the value of every staged put and
\* KeyNotFound for every staged delete.
C8_Staging ==
    ((\E k \in Keys, v \in BatchValues : BatchPut(k, v)) \/ (\E k \in Keys : BatchDelete(k)))
        => \A k \in Keys : GetNow(k)' = GetNow(k)

C8_Committed ==
    CommitsBatch =>
        \A k \in DOMAIN pending_writes : GetNow(k)' = StagedResult(pending_writes[k])

C8_BatchVisibleAtCommit == [][C8_Staging /\ C8_Committed]_vars

\* C9: a successful commit of a batch that is not empty adds exactly 1 to
\* the sequence counter; put, get, delete, sync, staging, a commit of an
\* empty batch and a rejected commit leave it as it is.
C9_CommitStep == CommitsBatch => seq_num' = seq_num + 1

C9_OtherSteps ==
    (/\ ~CommitsBatch
     /\ \/ \E k \in Keys, v \in Values : Put(k, v)
        \/ \E k \in Keys : Get(k)
        \/ \E k \in Keys : Delete(k)
        \/ Sync
        \/ \E k \in Keys, v \in BatchValues : BatchPut(k, v)
        \/ \E k \in Keys : BatchDelete(k)
        \/ Commit)
    => seq_num' = seq_num

C9_CounterAdvancesByOne == [][C9_CommitStep /\ C9_OtherSteps]_vars

\* a second batch has been committed on this engine
C9_Witness ==
    /\ opened
    /\ seq_num = 3
    /\ Cardinality({pl \in LogPlaces : RecordOf(pl).record_type = TXNFINISHED}) = 2

\* the number of commits whose marker is in the log
NumCommitted == Cardinality({pl \in LogPlaces : RecordOf(pl).record_type = TXNFINISHED})

\* C10: after n batches were committed and the engine was closed and
\* opened again, every key of the batches is present and the sequence
\* counter is at least n + 1.
C10_CounterAfterReopen ==
    (opened /\ file_ids # <<>>) =>
        /\ seq_num >= NumCommitted + 1
        /\ \A pl \in LogPlaces :
              (/\ RecordOf(pl).bid # 0
               /\ RecordOf(pl).record_type = NORMAL
               /\ IsLatestCommitted(pl, UserKeyOf(pl)))
              => GetNow(UserKeyOf(pl)) = Ok(RecordOf(pl).value)

\* C11: after open the index has no entry for a key whose latest committed
\* record is a DELETE, and get of such a key returns KeyNotFound; a key
\* that was deleted and put again before the restart returns the value of
\* the later put.
C11_TombstonesAfterOpen ==
    JustOpened =>
        \A pl \in LogPlaces :
            IsLatestCommitted(pl, UserKeyOf(pl)) =>
                IF RecordOf(pl).record_type = DELETE
                THEN /\ UserKeyOf(pl) \notin DOMAIN index
                     /\ GetNow(UserKeyOf(pl)) = Err("KeyNotFound")
                ELSE (\E q \in CommittedOf(UserKeyOf(pl)) :
                          RecordOf(q).record_type = DELETE)
                     => GetNow(UserKeyOf(pl)) = Ok(RecordOf(pl).value)

\* C12: on an open engine the tracked write offset of the active file is
\* the number of bytes the file holds, also right after open on a directory
\* that holds data files.
C12_WriteOffsetIsFileSize ==
    opened => active_file.write_offset = FileSize(disk[active_file.file_id])

AllReturned == \A t \in Threads : threads[t].pc = "idle"

\* C14: when the concurrent put and delete calls have all returned, get(k)
\* reflects the record of k that is last in the log: its value when it is
\* NORMAL, KeyNotFound when it is a DELETE.
C14_LastRecordWins ==
    (opened /\ AllReturned /\ OnlyPutsAndDeletes) =>
        \A pl \in LogPlaces :
            IsLatestCommitted(pl, UserKeyOf(pl)) =>
                GetNow(UserKeyOf(pl)) =
                    (IF RecordOf(pl).record_type = NORMAL
                     THEN Ok(RecordOf(pl).value) ELSE Err("KeyNotFound"))

\* the records and terminators that commits wrote
BatchPlaces == {pl \in LogPlaces : SeqNumOf(pl) # NON_TRANSACTION_SEQ_NUM}

\* C15: between the first record of a batch and its terminator the log
\* holds no record or terminator of another batch.
C15_BatchContiguous ==
    \A p \in BatchPlaces, q \in BatchPlaces, r \in BatchPlaces :
        (/\ Before(PosOf(p), PosOf(q))
         /\ Before(PosOf(q), PosOf(r))
         /\ RecordOf(p).bid = RecordOf(r).bid)
        => (SeqNumOf(q) = SeqNumOf(p) /\ RecordOf(q).bid = RecordOf(p).bid)

\* a thread is inside a commit that has appended a record, the log holds a
\* whole batch of another commit, and the other thread is inside a put
C15_Witness ==
    \E t \in Threads, u \in Threads :
        /\ threads[t].pc = "commit_append"
        /\ threads[t].n >= 1
        /\ threads[u].pc = "put_index"
        /\ \E pl \in LogPlaces :
              /\ RecordOf(pl).record_type = TXNFINISHED
              /\ RecordOf(pl).bid # threads[t].bid

\* the terminators of the log
Terminators == {pl \in LogPlaces : RecordOf(pl).record_type = TXNFINISHED}

\* C16: on one engine, a batch whose terminator is earlier in the log has
\* the smaller seq_num.
C16_SeqNumsFollowCommitOrder ==
    \A a \in Terminators, b \in Terminators :
        Before(PosOf(a), PosOf(b)) => SeqNumOf(a) < SeqNumOf(b)

\* two threads have each committed a batch
C16_Witness ==
    /\ AllReturned
    /\ Cardinality(Terminators) = 2
    /\ seq_num = 3

\* the keys of the index when the iterator was created, what the calls of
\* next since the last rewind or seek have yielded, and the order in which
\* the iterator is to yield: a comes before b
SnapshotKeys == DOMAIN iterator.snapshot
SeenKeys == {iterator.seen[i].key : i \in DOMAIN iterator.seen}
Precedes(a, b) ==
    IF iterator.options.reverse THEN cmp(a, b) = "Greater" ELSE cmp(a, b) = "Less"
SeenInOrder ==
    \A i \in DOMAIN iterator.seen, j \in DOMAIN iterator.seen :
        i < j => Precedes(iterator.seen[i].key, iterator.seen[j].key)

\* every key of S that was not yet yielded comes after every yielded key
NoneSkipped(S) == \A k \in S \ SeenKeys : \A x \in SeenKeys : Precedes(x, k)

AtOrAfterPosition(k) ==
    iterator.sought.kind = "start" \/ ~Precedes(k, iterator.sought.key)
Matching ==
    {k \in SnapshotKeys :
        /\ Len(iterator.options.prefix) <= Len(k)
        /\ SubSeq(k, 1, Len(iterator.options.prefix)) = iterator.options.prefix
        /\ AtOrAfterPosition(k)}

\* C18: an iterator with prefix p yields only keys that start with p, and
\* it yields every key of the index that starts with p and is at or after
\* its position; keys without the prefix do not end the iteration.
C18_PrefixFilter ==
    iterator.created
    => /\ \A k \in SeenKeys :
             Len(iterator.options.prefix) <= Len(k)
             /\ SubSeq(k, 1, Len(iterator.options.prefix)) = iterator.options.prefix
       /\ SeenKeys \subseteq Matching
       /\ NoneSkipped(Matching)
       /\ iterator.done => SeenKeys = Matching

\* a reverse iterator with prefix <<1>> has passed key <<2>>, which does
\* not match, and has yielded the two keys that match
C18_Witness ==
    /\ iterator.created
    /\ iterator.options = [prefix |-> <<1>>, reverse |-> TRUE]
    /\ <<2>> \in SnapshotKeys
    /\ iterator.done
    /\ Len(iterator.seen) = 2

\* the keys that are not before the key of the seek
Candidates == {k \in SnapshotKeys : ~Precedes(k, iterator.sought.key)}

\* C19: after seek(k) on an iterator with an empty prefix the first next
\* yields the least key >= k, with reverse the greatest key <= k; the
\* following calls go on in that order; when there is no such key next
\* yields nothing.
C19_SeekPosition ==
    (/\ iterator.created
     /\ iterator.options.prefix = <<>>
     /\ iterator.sought.kind = "seek")
    => /\ iterator.seen # <<>> =>
             /\ iterator.seen[1].key \in Candidates
             /\ \A c \in Candidates :
                    c = iterator.seen[1].key \/ Precedes(iterator.seen[1].key, c)
       /\ SeenInOrder
       /\ Candidates = {} => iterator.seen = <<>>
       /\ (iterator.done /\ iterator.seen = <<>>) => Candidates = {}

\* a reverse iterator over three keys, sought to a key that lies between
\* two of them, has yielded the one key below it
C19_Witness ==
    /\ iterator.created
    /\ iterator.options = [prefix |-> <<>>, reverse |-> TRUE]
    /\ iterator.sought = [kind |-> "seek", key |-> <<1, 1>>]
    /\ Cardinality(SnapshotKeys) = 3
    /\ iterator.done
    /\ Len(iterator.seen) = 1
    /\ iterator.seen[1].key = <<1>>

\* C20: the items of an iterator are those of the index at its creation,
\* whatever was put, deleted or committed since, and each call of next
\* yields the location the key had at the creation and the value it had
\* then: the value get returned for it, or the value last written to it.
C20_IteratorSnapshot ==
    iterator.created
    => /\ iterator.items =
             BTreeIter([k \in SnapshotKeys |-> iterator.snapshot[k].pos], iterator.options)
       /\ \A i \in DOMAIN iterator.seen :
             /\ iterator.seen[i].key \in SnapshotKeys
             /\ iterator.seen[i].pos = iterator.snapshot[iterator.seen[i].key].pos
             /\ iterator.seen[i].value \in
                    {iterator.snapshot[iterator.seen[i].key].value,
                     iterator.snapshot[iterator.seen[i].key].written}

\* the calls that take a key
KeyedCalls == {"put", "get", "delete", "batch_put", "batch_delete"}

\* C21: put, get and delete of the engine and put and delete of the batch,
\* called with an empty key, return KeyIsEmpty and leave the log, the index,
\* the staged map and the sequence counter as they were.
C21_EmptyKeyStep ==
    (returned'.op \in KeyedCalls /\ returned'.key = EmptyKey)
    => /\ returned'.res = Err("KeyIsEmpty")
       /\ UNCHANGED <<disk, synced, active_file, older_files, index,
                      pending_writes, seq_num>>

C21_EmptyKeyRejected == [][C21_EmptyKeyStep]_vars

\* a put with the empty key has returned on an engine whose log, index and
\* staged map hold something
C21_Witness ==
    /\ returned.op = "put"
    /\ returned.key = EmptyKey
    /\ index # EmptyMap
    /\ pending_writes # EmptyMap
    /\ seq_num > 1

\* C22: delete of a key that is not empty and has no index entry returns
\* success and appends nothing: the files, the write offset of the active
\* file and the index stay as they were.
C22_AbsentKeyStep ==
    (/\ returned'.op = "delete"
     /\ returned'.key # EmptyKey
     /\ returned'.key \notin DOMAIN index)
    => /\ returned'.res = Ok(<<>>)
       /\ UNCHANGED <<disk, synced, active_file, older_files, index>>

C22_DeleteOfAbsentKey == [][C22_AbsentKeyStep]_vars

\* delete(<<2>>) has returned on an engine whose log holds records of
\* another key and none of <<2>>
C22_Witness ==
    /\ returned = Returned("delete", <<2>>, Ok(<<>>))
    /\ <<1>> \in DOMAIN index
    /\ \A pl \in LogPlaces : UserKeyOf(pl) # <<2>>

\* C23: commit of a batch with more than max_batch_size staged records
\* returns BatchTooLarge, commit of an empty batch returns success, and
\* both append nothing, take no sequence number and leave the index and
\* the staged map as they were.
C23_RejectedCommitStep ==
    (/\ returned'.op = "commit"
     /\ \/ pending_writes = EmptyMap
        \/ Cardinality(DOMAIN pending_writes) > options.max_batch_size)
    => /\ returned'.res = (IF pending_writes = EmptyMap
                           THEN Ok(<<>>) ELSE Err("BatchTooLarge"))
       /\ UNCHANGED <<disk, synced, active_file, older_files, index, seq_num,
                      pending_writes>>

C23_CommitWithoutEffect == [][C23_RejectedCommitStep]_vars

\* commit has returned BatchTooLarge on an engine with a log and an index,
\* and the two staged records are still staged
C23_Witness ==
    /\ returned.op = "commit"
    /\ returned.res = Err("BatchTooLarge")
    /\ Cardinality(DOMAIN pending_writes) = 2
    /\ index # EmptyMap

\* the record whose frame holds byte n of the file
FrameOf(n) ==
    CHOOSE r \in 1..Len(codec.records) :
        /\ FrameStart(codec.records, r) < n
        /\ n <= FrameStart(codec.records, r + 1)

\* C24: when one bit of a frame has flipped, read_log_record at the offset
\* of that frame fails with InvalidLogRecordCRC: it returns no record, does
\* not report ReadDataFileEOF and does not abort.
C24_BitFlipDetected ==
    (/\ codec.flipped # 0
     /\ codec.read # 0
     /\ FrameOf(codec.flipped) = codec.read)
    => codec.result.err = "InvalidLogRecordCRC"

\* C25: when records were written to a data file as the bytes encode gives,
\* read_log_record at the sum of the lengths of the frames before the i-th
\* returns the i-th record, with its type, key and value, and the length of
\* its frame as size.
C25_CodecRoundTrip ==
    (codec.flipped = 0 /\ codec.read # 0)
    => /\ codec.result.err = "Ok"
       /\ codec.result.record = codec.records[codec.read]
       /\ codec.result.size = Len(encode(codec.records[codec.read]))
       /\ codec.result.size = encoded_length(codec.records[codec.read])

\* the second of two records, a DELETE record, has been read
C25_Witness ==
    /\ codec.flipped = 0
    /\ Len(codec.records) = 2
    /\ codec.read = 2
    /\ codec.records[2].record_type = DELETE
    /\ codec.records[1].value # <<>>
    /\ codec.result.err = "Ok"

\* the files that hold a record of key
FilesOf(key) == {pl[1] : pl \in {q \in LogPlaces : UserKeyOf(q) = key}}

\* C26: open scans the data files in ascending order of their ids, so that
\* for a key with records in several files the record of the file with the
\* greatest id, the last one of that file, is the one the index reflects
\* (stated for logs of puts and deletes).
C26_AscendingScan ==
    (JustOpened /\ OnlyPutsAndDeletes) =>
        /\ \A i \in DOMAIN file_ids, j \in DOMAIN file_ids :
               i < j => file_ids[i] < file_ids[j]
        /\ \A pl \in LogPlaces :
               (/\ Cardinality(FilesOf(UserKeyOf(pl))) > 1
                /\ IsLatestCommitted(pl, UserKeyOf(pl)))
               => IF RecordOf(pl).record_type = NORMAL
                  THEN /\ UserKeyOf(pl) \in DOMAIN index
                       /\ index[UserKeyOf(pl)] = PosOf(pl)
                  ELSE UserKeyOf(pl) \notin DOMAIN index

\* the greatest seq_num of the records of the log, 0 for an empty log
MaxSeqNum ==
    IF LogPlaces = {} THEN NON_TRANSACTION_SEQ_NUM
    ELSE SeqNumOf(CHOOSE pl \in LogPlaces :
                      \A q \in LogPlaces : SeqNumOf(q) <= SeqNumOf(pl))

\* C27: after open the sequence counter is the greater of 1 and the
\* greatest seq_num of the log, records of batches without a terminator
\* counted; it is 1 for an empty directory and for a log of puts and
\* deletes.
C27_CounterAfterOpen ==
    (opened /\ hist.touched = {} /\ pending_writes = EmptyMap) =>
        seq_num = (IF MaxSeqNum > 1 THEN MaxSeqNum ELSE 1)

\* an engine opened on a log whose greatest seq_num is the one of a batch
\* without a terminator
C27_Witness ==
    /\ JustOpened
    /\ seq_num = 2
    /\ \E pl \in LogPlaces :
          /\ SeqNumOf(pl) = 2
          /\ ~HasMarker(RecordOf(pl).bid)
    /\ \E pl \in LogPlaces : SeqNumOf(pl) = 1 /\ RecordOf(pl).record_type = TXNFINISHED

\* C28: when the machine stops inside commit before the finish record is
\* completely written, be it between two records or in the middle of one,
\* the next open succeeds and its index is the one of the log without the
\* records of that commit.
C28_IndexOfFinishedLog ==
    \A k \in Keys :
        IF \E pl \in LogPlaces :
              IsLatestCommitted(pl, k) /\ RecordOf(pl).record_type = NORMAL
        THEN k \in DOMAIN index
             /\ \E pl \in LogPlaces : IsLatestCommitted(pl, k) /\ index[k] = PosOf(pl)
        ELSE k \notin DOMAIN index

C28_CrashInsideCommit ==
    UnfinishedCommits(disk) # {} =>
        /\ open_err = "Ok"
        /\ JustOpened => C28_IndexOfFinishedLog

\* the records put, delete and commit can hand to append_log_record in the
\* current state
AppendInputs ==
    {LogRecord(log_record_key_with_seq_num(k, NON_TRANSACTION_SEQ_NUM), v, NORMAL, 0) :
        k \in Keys, v \in Values}
    \cup {LogRecord(log_record_key_with_seq_num(k, NON_TRANSACTION_SEQ_NUM), <<>>, DELETE, 0) :
             k \in Keys}
    \cup {LogRecord(log_record_key_with_seq_num(k, seq_num), v, NORMAL, hist.appended + 1) :
             k \in Keys, v \in BatchValues}
    \cup {LogRecord(log_record_key_with_seq_num(k, seq_num), <<>>, DELETE, hist.appended + 1) :
             k \in Keys}
    \cup {FinishRecord(seq_num, hist.appended + 1)}

\* C29: an append rolls the active file exactly when write_offset plus the
\* encoded length exceeds data_file_size.  When it rolls, the old active file
\* is synced and kept under its id among the older files with its records,
\* the new active file has the next id and write offset 0; in both cases the
\* returned position is the file the record went to and that file's write
\* offset before the write, the whole record is in that one file, and
\* without a roll the set of files is unchanged.
C29_AppendOf(rec) ==
    LET a == append_log_record(Files, rec, options.sync_write)
        old == active_file.file_id
        full == active_file.write_offset + encoded_length(rec) > options.data_file_size
    IN /\ full =>
            /\ a.e.active_file.file_id = old + 1
            /\ a.e.older_files = older_files \cup {old}
            /\ a.e.disk[old] = disk[old]
            /\ a.e.synced[old] = Len(disk[old])
            /\ a.pos = LogRecordPos(old + 1, 0)
            /\ a.e.disk[old + 1] = <<rec>>
            /\ get_value_by_position(a.e, LogRecordPos(old, 0))
                  = get_value_by_position(Files, LogRecordPos(old, 0))
       /\ ~full =>
            /\ a.e.active_file.file_id = old
            /\ a.e.older_files = older_files
            /\ DOMAIN a.e.disk = DOMAIN disk
            /\ a.pos = LogRecordPos(old, active_file.write_offset)
            /\ a.e.disk[old] = Append(disk[old], rec)
       /\ a.e.active_file.write_offset = a.pos.offset + encoded_length(rec)
       /\ \A f \in DOMAIN disk \ {a.pos.file_id} : a.e.disk[f] = disk[f]

C29_RollWhenFull == opened => \A rec \in AppendInputs : C29_AppendOf(rec)

\* an engine that has rolled its active file, where one record fits the
\* active file and another does not
C29_Witness ==
    /\ opened
    /\ file_ids = <<>>
    /\ older_files # {}
    /\ \E rec \in AppendInputs :
          active_file.write_offset + encoded_length(rec) > options.data_file_size
    /\ \E rec \in AppendInputs :
          active_file.write_offset + encoded_length(rec) = options.data_file_size

IOErrors == {"FailedToWriteToDataFile", "FailedToSyncDataFile"}

\* the steps in which the append of a put, a delete or a commit fails
FailedCall ==
    \/ \E key \in FailKeys, value \in FailValues, at \in FailurePoints :
          PutFails(key, value, at)
    \/ \E key \in FailKeys, at \in FailurePoints : DeleteFails(key, at)
    \/ CommitFails

\* C30: a put, delete or commit whose append fails with a write or sync
\* error returns the error and leaves the index as it was; a failed commit
\* also leaves the staged records as they were, and get returns no staged
\* value of the failed batch that it did not return before.
C30_FailedCallStep ==
    FailedCall =>
        /\ returned'.res.err \in IOErrors
        /\ index' = index
        /\ returned'.op = "commit" =>
              /\ pending_writes' = pending_writes
              /\ \A k \in Keys : \A s \in DOMAIN pending_writes :
                    (GetNow(k)' = Ok(pending_writes[s].value)
                        /\ pending_writes[s].record_type = NORMAL)
                    => GetNow(k) = GetNow(k)'

C30_FailedAppendLeavesNoTrace == [][C30_FailedCallStep]_vars

\* the records a commit has just written: those of disk' under its batch id
NewBatchRecords ==
    {pl \in LogPlaces' : RecordOf(pl)'.bid = hist.appended + 1
                            /\ RecordOf(pl)'.record_type # TXNFINISHED}

\* C31: WriteBatch::delete of a key of the index stages a DELETE record in
\* place of whatever was staged for the key; of a key not in the index it
\* removes the staged record of the key and stages nothing; it writes nothing
\* to the log; and a commit writes one record for each staged key, the one
\* staged last, and none for any other key.
C31_BatchDeleteStep ==
    /\ (returned'.op = "batch_delete" /\ returned'.key # EmptyKey) =>
          /\ returned'.res = Ok(<<>>)
          /\ UNCHANGED <<disk, synced, active_file, older_files, index, seq_num>>
          /\ \A k \in DOMAIN pending_writes' \ {returned'.key} :
                k \in DOMAIN pending_writes /\ pending_writes'[k] = pending_writes[k]
          /\ DOMAIN pending_writes \ {returned'.key} \subseteq DOMAIN pending_writes'
          /\ IF returned'.key \in DOMAIN index
             THEN /\ returned'.key \in DOMAIN pending_writes'
                  /\ pending_writes'[returned'.key].record_type = DELETE
             ELSE returned'.key \notin DOMAIN pending_writes'
    /\ (returned'.op = "commit" /\ disk' # disk) =>
          /\ Cardinality(NewBatchRecords) = Cardinality(DOMAIN pending_writes)
          /\ \A pl \in NewBatchRecords :
                /\ UserKeyOf(pl)' \in DOMAIN pending_writes
                /\ RecordOf(pl)'.record_type = pending_writes[UserKeyOf(pl)'].record_type
                /\ RecordOf(pl)'.value = pending_writes[UserKeyOf(pl)'].value

C31_BatchDeleteStaging == [][C31_BatchDeleteStep]_vars

\* a commit has written the DELETE record staged for key 1, and no commit
\* has written a record for key 2
C31_Witness ==
    /\ returned.op = "commit"
    /\ \E pl \in LogPlaces :
          /\ RecordOf(pl).bid # 0
          /\ RecordOf(pl).record_type = DELETE
          /\ UserKeyOf(pl) = <<1>>
    /\ \A pl \in LogPlaces : RecordOf(pl).bid # 0 => UserKeyOf(pl) # <<2>>

\* C32: no call of Iterator::next aborts: each one returns an entry with the
\* value read at its location, or None.
C32_NextNeverAborts ==
    \A i \in DOMAIN iterator.seen : iterator.seen[i].value.err = "Ok"

\* lst begins with pre
IsPrefixOf(pre, lst) ==
    Len(pre) <= Len(lst) /\ SubSeq(lst, 1, Len(pre)) = pre

\* one step leaves every file in the directory, keeps what each file held at
\* its beginning, and adds records only to files that are the active file
\* during the step: none that was an older file before it
C33_FilesStep ==
    \A f \in DOMAIN disk :
        /\ f \in DOMAIN disk'
        /\ IsPrefixOf(disk[f], disk'[f])
        /\ (opened /\ disk'[f] # disk[f]) =>
              /\ f \notin older_files
              /\ active_file.file_id <= f
              /\ f <= active_file'.file_id
        /\ (~opened) => disk'[f] = disk[f]

\* C33: a data file that is no longer the active file never changes: every
\* put, delete and commit only appends, and only to the file that is active
\* when it writes, in one run and across restarts; no step truncates or
\* rewrites a file.
C33_OlderFilesNeverChange == [][C33_FilesStep]_vars

\* C33 witness: after a restart on a directory with data files the engine
\* has written again and rolled to a file the directory did not hold, and an
\* older file holds records
C33_Witness ==
    /\ opened
    /\ file_ids # <<>>
    /\ hist.touched # {}
    /\ active_file.file_id > file_ids[1]
    /\ \E f \in older_files : Len(disk[f]) > 0
    /\ Len(disk[active_file.file_id]) > 0

\* the record Engine::get reads for key
ReadFor(key) == read_log_record(disk[index[key].file_id], index[key].offset)

\* C34: at every moment of every interleaving, a value that get returns was
\* not written by a commit whose TXNFINISHED record is not yet in the log:
\* commit updates the index only after all its appends.
C34_GetSeesNoUnfinishedBatch ==
    opened =>
        \A k \in DOMAIN index :
            (/\ index[k].file_id \in DOMAIN disk
             /\ GetNow(k).err = "Ok"
             /\ ReadFor(k).record.bid # 0)
            => HasMarker(ReadFor(k).record.bid)

\* the order in which the calls take the locks
LockRank(lock) ==
    CASE lock = "pending_writes" -> 1
      [] lock = "index_iter" -> 1
      [] lock = "batch_commit_lock" -> 2
      [] lock = "active_file" -> 3
      [] lock = "older_files" -> 4
      [] lock = "data_file" -> 5
      [] lock = "index" -> 6

LockNames == {"pending_writes", "index_iter", "batch_commit_lock", "active_file",
              "older_files", "data_file", "index"}

\* a thread asks only for a lock that comes after every lock it holds
LocksTakenInOrder ==
    \A t \in Threads :
        (Running(t) /\ NextLockOp(t).op = "acq") =>
            \A l \in LockNames :
                Holds(t, l) # "-" => LockRank(l) < LockRank(NextLockOp(t).lock)

\* some thread inside a call can take its next step
SomeThreadCanStep ==
    \E t \in Threads :
        /\ Running(t)
        /\ \/ NextLockOp(t).op = "rel"
           \/ CanAcquire(t, NextLockOp(t).lock, NextLockOp(t).mode)

\* C35: no interleaving of the calls deadlocks: the locks are taken in one
\* order, in no state are all the threads inside a call blocked, and every
\* call that was started returns.
C35_NoDeadlock ==
    /\ [](LocksTakenInOrder)
    /\ []((\E t \in Threads : Running(t)) => SomeThreadCanStep)
    /\ \A t \in Threads : Running(t) ~> ~Running(t)

\* C35 witness: an append that rolls the active file waits for the write
\* lock of active_file while a reader holds its read lock and waits behind
\* it for nothing: the reader goes on to older_files
C35_Witness ==
    \E t, u \in Threads :
        /\ Running(t) /\ Running(u)
        /\ NextLockOp(t) = Acq("active_file", "W")
        /\ threads[t].n + 6 <= Len(threads[t].order)
        /\ threads[t].order[threads[t].n + 6] = Acq("older_files", "W")
        /\ Holds(u, "active_file") = "R"
        /\ NextLockOp(u) = Acq("older_files", "R")

\* C36: a delete of a non-empty key whose append succeeded returns success
\* in every interleaving: when it comes to its index.delete, the result is
\* Ok, also when another thread deletes the same key at the same time.
C36_DeleteReturnsOk ==
    \A t \in Threads :
        threads[t].pc = "delete_index" =>
            DeleteIndexResult(index, threads[t].key) = Ok(<<>>)

\* C37: no two commits write records under the same seq_num: records of the
\* log that two different commits wrote carry different seq_nums, whatever
\* restarts lie between the commits.
C37_SeqNumOfOneCommit ==
    \A p, q \in LogPlaces :
        (/\ RecordOf(p).bid # 0
         /\ RecordOf(q).bid # 0
         /\ RecordOf(p).bid # RecordOf(q).bid)
        => SeqNumOf(p) # SeqNumOf(q)

\* what Engine::open would load from the data files as they are
Reloaded == load_index_from_data_files(disk, OpenFileIds(disk))

\* C38: between two calls the index of the running engine is the index
\* open would rebuild from the data files: a restart changes the result of
\* get for no key and the set of keys not at all.
C38_IndexIsRebuiltIndex ==
    opened =>
        /\ ~Reloaded.panic
        /\ Reloaded.err = "Ok"
        /\ Reloaded.index = index

\* C39: on the log of runs without a crash Engine::open never aborts: each
\* TXNFINISHED record of the scan finds the records of its seq_num, also
\* when a rollover put them into another data file, and open returns an
\* engine.
C39_RecoveryNeverAborts == open_err = "Ok"

\* every record of file f is synced
Durable(f) == synced[f] = Len(disk[f])

\* after a step no older file holds a record that is not synced; a sync or
\* close leaves no file with one; a crash takes nothing from an older file
C40_UnsyncedStep ==
    /\ opened' => \A f \in older_files' : Durable(f)'
    /\ Sync => \A f \in DOMAIN disk' : Durable(f)'
    /\ (Crash \/ CommitCrash) => \A f \in older_files : disk'[f] = disk[f]

\* C40: records that are appended and not synced lie in the active file
\* only: a file is synced before it becomes an older file, a crash loses at
\* most a suffix of the active file, and after sync or close no record is
\* unsynced.
C40_UnsyncedOnlyInActiveFile == [][C40_UnsyncedStep]_vars

\* C40 witness: the engine runs without sync_write, the active file holds
\* records that are not synced, and there is an older file with records
C40_Witness ==
    /\ opened
    /\ ~options.sync_write
    /\ ~Durable(active_file.file_id)
    /\ \E f \in older_files : Len(disk[f]) > 0


====
